---- MODULE Spec2Model ----
(***************************************************************************)
(* A model of the if-change-then-change checker (src/src/main.rs,          *)
(* src/src/if_change_then_change2.rs, src/src/diagnostic.rs).              *)
(*                                                                         *)
(* Text is modelled as a sequence of tokens.  A token is a maximal piece   *)
(* of text of one character class: a whitespace character, a punctuation   *)
(* character, a word of letters and digits, or one of the three keywords   *)
(* "if-change", "then-change", "end-change" (the only substrings the       *)
(* parser searches for).  Concatenating the tokens of a sequence gives the *)
(* text; no word of the model contains a piece of a keyword.               *)
(***************************************************************************)
EXTENDS Integers, Sequences, FiniteSets, TLC

\* Option<T>: None is the empty tuple, Some(x) the one-element tuple.
None == <<>>

Some(x) == <<x>>

IsSome(o) == o # None

Unwrap(o) == o[1]

Whitespace == {" "}

Punctuation == {"#", "-", "/", "*", ".", ":", "'", "<", ">", "!"}

Keywords == {"if-change", "then-change", "end-change"}

\* char::is_ascii_punctuation() || char::is_ascii_whitespace(), on a token
IsPunctOrWhitespace(tok) == tok \in Punctuation \cup Whitespace

\* is_comment_prefix that knows the "#" comments only
is_comment_prefix_HashOnly(s) == \A k \in 1..Len(s) : s[k] \in {"#"} \cup Whitespace

\* Parser::is_comment_prefix
is_comment_prefix(s) == \A k \in 1..Len(s) : IsPunctOrWhitespace(s[k])

\* str::find(keyword): the index of the first occurrence from k on, 0 if none
RECURSIVE Find(_, _, _)
Find(line, keyword, k) ==
    IF k > Len(line) THEN 0 ELSE IF line[k] = keyword THEN k ELSE Find(line, keyword, k + 1)

\* str::split_once(keyword): the text before and after the first occurrence
split_once(line, keyword) ==
    LET k == Find(line, keyword, 1)
    IN  IF k = 0
        THEN None
        ELSE Some([pre |-> SubSeq(line, 1, k - 1), post |-> SubSeq(line, k + 1, Len(line))])

\* str::trim_end_matches(is_ascii_punctuation || is_ascii_whitespace)
RECURSIVE trim_end_matches(_)
trim_end_matches(s) ==
    IF s # <<>> /\ IsPunctOrWhitespace(s[Len(s)])
    THEN trim_end_matches(SubSeq(s, 1, Len(s) - 1))
    ELSE s

\* str::trim_start(): leading whitespace only
RECURSIVE trim_start(_)
trim_start(s) ==
    IF s # <<>> /\ s[1] \in Whitespace THEN trim_start(Tail(s)) ELSE s

RECURSIVE trim_start_matches(_)
trim_start_matches(s) ==
    IF s # <<>> /\ IsPunctOrWhitespace(s[1]) THEN trim_start_matches(Tail(s)) ELSE s

\* str::trim_matches(is_ascii_punctuation || is_ascii_whitespace)
trim_matches(s) == trim_end_matches(trim_start_matches(s))

\* post.chars().nth(0).map_or(true, |ch| ch.is_ascii_whitespace())
FirstIsWhitespaceOrEmpty(s) == s = <<>> \/ s[1] \in Whitespace

\* line_type that takes "if-change" whatever follows it
line_type_AnyPost(line) ==
    LET ic == split_once(line, "if-change")
        tc == split_once(line, "then-change")
        ec == split_once(line, "end-change")
        tpost == trim_end_matches(Unwrap(tc).post)
    IN  IF IsSome(ic) /\ is_comment_prefix(Unwrap(ic).pre)
        THEN [type |-> "IfChange", path |-> <<>>]
        ELSE IF IsSome(tc) /\ is_comment_prefix(Unwrap(tc).pre) /\ tpost = <<>>
        THEN [type |-> "ThenChangeBlockStart", path |-> <<>>]
        ELSE IF /\ IsSome(tc)
                /\ is_comment_prefix(Unwrap(tc).pre)
                /\ FirstIsWhitespaceOrEmpty(tpost)
        THEN [type |-> "ThenChangeInline", path |-> trim_start(tpost)]
        ELSE IF IsSome(ec) /\ is_comment_prefix(Unwrap(ec).pre)
        THEN [type |-> "EndChangeAkaThenChangeBlockEnd", path |-> <<>>]
        ELSE [type |-> "SourceCode", path |-> <<>>]

\* Parser::line_type
line_type(line) ==
    LET ic == split_once(line, "if-change")
        tc == split_once(line, "then-change")
        ec == split_once(line, "end-change")
        tpost == trim_end_matches(Unwrap(tc).post)
    IN  IF /\ IsSome(ic)
           /\ is_comment_prefix(Unwrap(ic).pre)
           /\ FirstIsWhitespaceOrEmpty(trim_end_matches(Unwrap(ic).post))
        THEN [type |-> "IfChange", path |-> <<>>]
        ELSE IF IsSome(tc) /\ is_comment_prefix(Unwrap(tc).pre) /\ tpost = <<>>
        THEN [type |-> "ThenChangeBlockStart", path |-> <<>>]
        ELSE IF /\ IsSome(tc)
                /\ is_comment_prefix(Unwrap(tc).pre)
                /\ FirstIsWhitespaceOrEmpty(tpost)
        THEN [type |-> "ThenChangeInline", path |-> trim_start(tpost)]
        ELSE IF IsSome(ec) /\ is_comment_prefix(Unwrap(ec).pre)
        THEN [type |-> "EndChangeAkaThenChangeBlockEnd", path |-> <<>>]
        ELSE [type |-> "SourceCode", path |-> <<>>]

\* BlockKey::new
BlockKey(path) == [path |-> path]

\* Diagnostic { path, start_line, end_line, message }; a message is the
\* fixed text (kind) and the text formatted into it (arg).
Diagnostic(path, start_line, end_line, kind, arg) ==
    [path |-> path, start_line |-> start_line, end_line |-> end_line,
     message |-> [kind |-> kind, arg |-> arg]]

\* BlockNodeBuilder::default(): every field unset
BlockNodeBuilderDefault ==
    [key |-> None, then_change |-> None, if_change_lineno |-> None,
     then_change_lineno |-> None, end_change_lineno |-> None]

\* then_change_push that puts the new entry first
then_change_push_Front(builder, item) ==
    [builder EXCEPT !.then_change =
        Some(<<item>> \o (IF IsSome(@) THEN Unwrap(@) ELSE <<>>))]

\* BlockNodeBuilder::then_change_push (derive_builder, setter(each))
then_change_push(builder, item) ==
    [builder EXCEPT !.then_change =
        Some((IF IsSome(@) THEN Unwrap(@) ELSE <<>>) \o <<item>>)]

\* BlockNodeBuilder::build with then_change empty when it was never set
build_EmptyDefault(builder) ==
    IF \E f \in DOMAIN builder \ {"then_change"} : builder[f] = None
    THEN None
    ELSE Some([key |-> Unwrap(builder.key),
               then_change |-> IF IsSome(builder.then_change)
                               THEN Unwrap(builder.then_change) ELSE <<>>,
               if_change_lineno |-> Unwrap(builder.if_change_lineno),
               then_change_lineno |-> Unwrap(builder.then_change_lineno),
               end_change_lineno |-> Unwrap(builder.end_change_lineno)])

\* BlockNodeBuilder::build: Err when a field was never set
build(builder) ==
    IF \E f \in DOMAIN builder : builder[f] = None
    THEN None
    ELSE Some([key |-> Unwrap(builder.key),
               then_change |-> Unwrap(builder.then_change),
               if_change_lineno |-> Unwrap(builder.if_change_lineno),
               then_change_lineno |-> Unwrap(builder.then_change_lineno),
               end_change_lineno |-> Unwrap(builder.end_change_lineno)])

\* Parser::new
ParserNew(path, content) ==
    [input_path |-> path, input_content |-> content, block_nodes |-> <<>>,
     errors |-> <<>>,
     parse_state |-> [tag |-> "NoOp", lineno |-> None, builder |-> BlockNodeBuilderDefault]]

NoOpState == [tag |-> "NoOp", lineno |-> None, builder |-> BlockNodeBuilderDefault]

\* record_error that also sets parse_state to NoOp
record_error_Reset(p, lineno, kind) ==
    [p EXCEPT !.errors = Append(@, Diagnostic(p.input_path, Some(lineno), None, kind, <<>>)),
              !.parse_state = NoOpState]

\* Parser::record_error
record_error(p, lineno, kind) ==
    [p EXCEPT !.errors = Append(@, Diagnostic(p.input_path, Some(lineno), None, kind, <<>>))]

\* builder.build() followed by block_nodes.push or record_error, the state
\* left as it is
BuildAndReset_StayOpen(p, i, builder) ==
    LET built == build(builder)
    IN  IF IsSome(built)
        THEN [p EXCEPT !.block_nodes = Append(@, Unwrap(built))]
        ELSE record_error(p, i, "internal error: failed to parse if-change-then-change")

\* builder.build() followed by block_nodes.push or record_error, then NoOp
BuildAndReset(p, i, builder) ==
    LET built == build(builder)
        q == IF IsSome(built)
             THEN [p EXCEPT !.block_nodes = Append(@, Unwrap(built))]
             ELSE record_error(p, i, "internal error: failed to parse if-change-then-change")
    IN  [q EXCEPT !.parse_state = NoOpState]

\* The arm ParseState::NoOp that passes over a then-change or end-change
ParseLineNoOp_Silent(p, i, lt) ==
    IF lt.type = "IfChange"
    THEN [p EXCEPT !.parse_state =
             [tag |-> "IfChange", lineno |-> Some(i),
              builder |-> [BlockNodeBuilderDefault EXCEPT
                              !.key = Some(BlockKey(p.input_path)),
                              !.if_change_lineno = Some(i)]]]
    ELSE p

\* The arm ParseState::NoOp of the match in Parser::parse
ParseLineNoOp(p, i, lt) ==
    CASE lt.type = "SourceCode" -> p
      [] lt.type = "IfChange" ->
           [p EXCEPT !.parse_state =
               [tag |-> "IfChange", lineno |-> Some(i),
                builder |-> [BlockNodeBuilderDefault EXCEPT
                                !.key = Some(BlockKey(p.input_path)),
                                !.if_change_lineno = Some(i)]]]
      [] lt.type = "ThenChangeInline" ->
           record_error(p, i, "then-change must follow an if-change")
      [] lt.type = "ThenChangeBlockStart" ->
           record_error(p, i, "then-change must follow an if-change")
      [] lt.type = "EndChangeAkaThenChangeBlockEnd" ->
           record_error(p, i, "end-change must follow an if-change and then-change")

\* The arm ParseState::IfChange where a second if-change opens the block anew
ParseLineIfChange_Restart(p, i, lt) ==
    LET builder == p.parse_state.builder
    IN  CASE lt.type = "SourceCode" -> p
          [] lt.type = "IfChange" ->
               [p EXCEPT !.parse_state =
                   [tag |-> "IfChange", lineno |-> Some(i),
                    builder |-> [builder EXCEPT !.if_change_lineno = Some(i)]]]
          [] lt.type = "ThenChangeInline" ->
               BuildAndReset(p, i,
                   [then_change_push(builder, <<i, BlockKey(lt.path)>>) EXCEPT
                       !.then_change_lineno = Some(i),
                       !.end_change_lineno = Some(i)])
          [] lt.type = "ThenChangeBlockStart" ->
               [p EXCEPT !.parse_state =
                   [tag |-> "ThenChange", lineno |-> Some(i),
                    builder |-> [builder EXCEPT !.then_change_lineno = Some(i)]]]
          [] lt.type = "EndChangeAkaThenChangeBlockEnd" ->
               record_error(p, i, "end-change must follow an if-change and then-change")

\* The arm ParseState::IfChange
ParseLineIfChange(p, i, lt) ==
    LET builder == p.parse_state.builder
    IN  CASE lt.type = "SourceCode" -> p
          [] lt.type = "IfChange" ->
               record_error(p, i, "if-change nesting is not allowed")
          [] lt.type = "ThenChangeInline" ->
               BuildAndReset(p, i,
                   [then_change_push(builder, <<i, BlockKey(lt.path)>>) EXCEPT
                       !.then_change_lineno = Some(i),
                       !.end_change_lineno = Some(i)])
          [] lt.type = "ThenChangeBlockStart" ->
               [p EXCEPT !.parse_state =
                   [tag |-> "ThenChange", lineno |-> Some(i),
                    builder |-> [builder EXCEPT !.then_change_lineno = Some(i)]]]
          [] lt.type = "EndChangeAkaThenChangeBlockEnd" ->
               record_error(p, i, "end-change must follow an if-change and then-change")

\* The arm ParseState::ThenChange with end_change_lineno set to the line of
\* the if-change
ParseLineThenChange_EndAtIfChange(p, i, lt, line) ==
    LET builder == p.parse_state.builder
    IN  CASE lt.type = "SourceCode" ->
               [p EXCEPT !.parse_state.builder =
                   then_change_push(builder, <<i, BlockKey(trim_matches(line))>>)]
          [] lt.type = "EndChangeAkaThenChangeBlockEnd" ->
               BuildAndReset(p, i, [builder EXCEPT !.end_change_lineno = builder.if_change_lineno])
          [] OTHER ->
               record_error(p, i, "end-change must follow an if-change and then-change")

\* The arm ParseState::ThenChange
ParseLineThenChange(p, i, lt, line) ==
    LET builder == p.parse_state.builder
    IN  CASE lt.type = "SourceCode" ->
               [p EXCEPT !.parse_state.builder =
                   then_change_push(builder, <<i, BlockKey(trim_matches(line))>>)]
          [] lt.type = "IfChange" ->
               record_error(p, i, "end-change must follow an if-change and then-change")
          [] lt.type = "ThenChangeInline" ->
               record_error(p, i, "end-change must follow an if-change and then-change")
          [] lt.type = "ThenChangeBlockStart" ->
               record_error(p, i, "end-change must follow an if-change and then-change")
          [] lt.type = "EndChangeAkaThenChangeBlockEnd" ->
               BuildAndReset(p, i, [builder EXCEPT !.end_change_lineno = Some(i)])

\* One iteration of the loop of Parser::parse: line number i (0-indexed)
ParseLine(p, i, line) ==
    CASE p.parse_state.tag = "NoOp" -> ParseLineNoOp(p, i, line_type(line))
      [] p.parse_state.tag = "IfChange" -> ParseLineIfChange(p, i, line_type(line))
      [] p.parse_state.tag = "ThenChange" -> ParseLineThenChange(p, i, line_type(line), line)

\* The loop of Parser::parse over input_content.lines().enumerate(), from line i
RECURSIVE ParseLines(_, _)
ParseLines(p, i) ==
    IF i >= Len(p.input_content)
    THEN p
    ELSE ParseLines(ParseLine(p, i, p.input_content[i + 1]), i + 1)

\* The end of Parser::parse recording its error at the last line of the input
ParseEof_AtLastLine(p) ==
    CASE p.parse_state.tag = "NoOp" -> p
      [] p.parse_state.tag = "IfChange" ->
           record_error(p, Len(p.input_content) - 1, "then-change must follow an if-change")
      [] p.parse_state.tag = "ThenChange" ->
           record_error(p, Len(p.input_content) - 1,
                        "end-change must follow an if-change and then-change")

\* The end of Parser::parse recording nothing
ParseEof_Silent(p) == p

\* The end of Parser::parse: the state left at end of input
ParseEof(p) ==
    CASE p.parse_state.tag = "NoOp" -> p
      [] p.parse_state.tag = "IfChange" ->
           record_error(p, Unwrap(p.parse_state.lineno), "then-change must follow an if-change")
      [] p.parse_state.tag = "ThenChange" ->
           record_error(p, Unwrap(p.parse_state.lineno),
                        "end-change must follow an if-change and then-change")

\* The return of Parser::parse: Err(errors) if an error was recorded, else
\* Ok(block_nodes)
ParseResult(q) ==
    IF q.errors # <<>>
    THEN [ok |-> FALSE, blocks |-> <<>>, diagnostics |-> q.errors]
    ELSE [ok |-> TRUE, blocks |-> q.block_nodes, diagnostics |-> <<>>]

\* Parser::parse: Ok(block_nodes) or Err(errors)
parse(p) == ParseResult(ParseEof(ParseLines(p, 0)))

\* FileNode::from_str
from_str(path, s) == parse(ParserNew(path, s))

\* content_range that ends at the end-change line, leaving it out
content_range_Exclusive(block) ==
    [start |-> block.if_change_lineno, end |-> block.end_change_lineno]

\* BlockNode::content_range: if_change_lineno..end_change_lineno + 1
content_range(block) ==
    [start |-> block.if_change_lineno, end |-> block.end_change_lineno + 1]

\* Range::contains
RangeContains(range, n) == range.start <= n /\ n < range.end

\* get_corresponding_block comparing the block's own key, not its then_change keys
get_corresponding_block_OwnKey(blocks, src_block) ==
    LET hits == {k \in 1..Len(blocks) : blocks[k].key = src_block.key}
    IN  IF hits = {}
        THEN None
        ELSE Some(blocks[CHOOSE k \in hits : \A h \in hits : k <= h])

\* get_corresponding_block returning the first block whatever it lists
get_corresponding_block_AnyBlock(blocks, src_block) ==
    IF blocks = <<>> THEN None ELSE Some(blocks[1])

\* get_corresponding_block returning the last matching block
get_corresponding_block_Last(blocks, src_block) ==
    LET hits == {k \in 1..Len(blocks) :
                    \E e \in 1..Len(blocks[k].then_change) :
                        blocks[k].then_change[e][2] = src_block.key}
    IN  IF hits = {}
        THEN None
        ELSE Some(blocks[CHOOSE k \in hits : \A h \in hits : k >= h])

\* FileNode::get_corresponding_block: the first block of the file (a sequence
\* of blocks) one of whose then_change keys equals the source block's key
get_corresponding_block(blocks, src_block) ==
    LET hits == {k \in 1..Len(blocks) :
                    \E e \in 1..Len(blocks[k].then_change) :
                        blocks[k].then_change[e][2] = src_block.key}
    IN  IF hits = {}
        THEN None
        ELSE Some(blocks[CHOOSE k \in hits : \A h \in hits : k <= h])

\* DiagnosticPosition::fmt: "path", "path:S+1" or "path:S+1-E", as text
Digits(n) ==
    LET d == <<"0", "1", "2", "3", "4", "5", "6", "7", "8", "9">>
    IN  IF n < 10 THEN <<d[n + 1]>> ELSE <<d[(n \div 10) + 1], d[(n % 10) + 1]>>

DiagnosticPositionFmt(path, start_line, end_line) ==
    IF IsSome(start_line)
    THEN IF IsSome(end_line)
         THEN path \o <<":">> \o Digits(Unwrap(start_line) + 1) \o <<"-">>
                   \o Digits(Unwrap(end_line))
         ELSE path \o <<":">> \o Digits(Unwrap(start_line) + 1)
    ELSE path

\* Diagnostic::fmt: "<position> - <message>"
DiagnosticFmt(d) ==
    [position |-> DiagnosticPositionFmt(d.path, d.start_line, d.end_line),
     message |-> d.message]

\* The position of a block as run() formats it into a message
BlockPositionFmt(block) ==
    DiagnosticPositionFmt(block.key.path, Some(content_range(block).start),
                          Some(content_range(block).end))

(***************************************************************************)
(* The order of Diagnostic: #[derive(PartialOrd, Ord)] compares path,      *)
(* start_line, end_line, message in turn; strings compare by bytes, an     *)
(* Option puts None first.                                                 *)
(***************************************************************************)
\* The tokens of the model in the byte order of their text
TokenOrder ==
    <<" ", "!", "#", "'", "*", "-", ".", "/", "0", "1", "2", "3", "4", "5", "6", "7",
      "8", "9", ":", "<", ">", "a", "b", "c", "d", "dev", "e", "end-change", "if-change",
      "null",
      "stdin", "then-change", "x">>

TokenRank(tok) == CHOOSE k \in 1..Len(TokenOrder) : TokenOrder[k] = tok

\* The fixed texts of the messages in the byte order of their text
MessageOrder ==
    <<"diff references file that does not exist: '",
      "end-change must follow an if-change and then-change",
      "expected an if-change-then-change in this file that matches ",
      "expected change here due to change in ",
      "if-change nesting is not allowed",
      "internal error: failed to parse if-change-then-change",
      "invalid git diff: expected a/before.path -> b/after.path, but got '",
      "then-change must follow an if-change",
      "then-change references file that could not be read: '",
      "then-change references file that does not exist: '">>

MessageRank(kind) == CHOOSE k \in 1..Len(MessageOrder) : MessageOrder[k] = kind

\* Ordering::cmp of two texts: -1, 0 or 1
RECURSIVE StrCmp(_, _)
StrCmp(s, t) ==
    CASE s = <<>> /\ t = <<>> -> 0
      [] s = <<>> /\ t # <<>> -> -1
      [] s # <<>> /\ t = <<>> -> 1
      [] OTHER ->
           IF s[1] = t[1]
           THEN StrCmp(Tail(s), Tail(t))
           ELSE IF TokenRank(s[1]) < TokenRank(t[1]) THEN -1 ELSE 1

\* Ordering::cmp of two Option<usize>
OptCmp(a, b) ==
    CASE a = None /\ b = None -> 0
      [] a = None /\ b # None -> -1
      [] a # None /\ b = None -> 1
      [] OTHER -> IF a[1] = b[1] THEN 0 ELSE IF a[1] < b[1] THEN -1 ELSE 1

MessageCmp(m, n) ==
    IF m.kind = n.kind
    THEN StrCmp(m.arg, n.arg)
    ELSE IF MessageRank(m.kind) < MessageRank(n.kind) THEN -1 ELSE 1

\* Diagnostic's derived Ord
DiagnosticCmp(d, e) ==
    LET c1 == StrCmp(d.path, e.path)
        c2 == OptCmp(d.start_line, e.start_line)
        c3 == OptCmp(d.end_line, e.end_line)
    IN  IF c1 # 0 THEN c1
        ELSE IF c2 # 0 THEN c2
        ELSE IF c3 # 0 THEN c3
        ELSE MessageCmp(d.message, e.message)

\* Vec::sort (stable): insertion of each element after the elements not greater
RECURSIVE SortInsert(_, _)
SortInsert(sorted, d) ==
    IF sorted = <<>>
    THEN <<d>>
    ELSE IF DiagnosticCmp(d, sorted[Len(sorted)]) >= 0
         THEN Append(sorted, d)
         ELSE Append(SortInsert(SubSeq(sorted, 1, Len(sorted) - 1), d), sorted[Len(sorted)])

RECURSIVE SortFrom(_, _, _)
SortFrom(ds, k, sorted) ==
    IF k > Len(ds) THEN sorted ELSE SortFrom(ds, k + 1, SortInsert(sorted, ds[k]))

\* diagnostics.sort() left out: the diagnostics in the order they were pushed
sort_Unsorted(ds) == ds

sort(ds) == SortFrom(ds, 1, <<>>)

(***************************************************************************)
(* The inputs of a run: the diff read from stdin (unidiff::PatchSet) and   *)
(* the files on disk.                                                      *)
(***************************************************************************)
\* The paths of the model
Paths == {<<"a">>, <<"b">>, <<"c">>}

\* The most targets one then-change block names
MaxTargets == 2

\* The paths whose file may hold several blocks or several targets in a block
RichPaths == {<<"a">>}

\* The paths whose file may be missing, unreadable or malformed
IrregularPaths == {<<"c">>}

SrcLine == <<"x">>

IfLine == <<"#", " ", "if-change">>

ThenInlineLine(path) == <<"#", " ", "then-change", " ">> \o path

ThenBlockLine == <<"#", " ", "then-change">>

TargetLine(path) == <<"#", " ">> \o path

EndLine == <<"#", " ", "end-change">>

\* The text of one well-formed block naming the targets ts: the inline form
\* for one target, the block form for more
BlockText(ts) ==
    IF Len(ts) = 1
    THEN <<IfLine, SrcLine, ThenInlineLine(ts[1])>>
    ELSE <<IfLine, SrcLine, ThenBlockLine>> \o [k \in 1..Len(ts) |-> TargetLine(ts[k])]
             \o <<EndLine>>

\* A file of well-formed blocks, a source line before and after each
RECURSIVE FileText(_)
FileText(bs) ==
    IF bs = <<>> THEN <<SrcLine>> ELSE <<SrcLine>> \o BlockText(Head(bs)) \o FileText(Tail(bs))

\* A file whose if-change is never closed
MalformedText == <<SrcLine, IfLine, SrcLine>>

SeqsUpTo(S, n) == UNION {[1..k -> S] : k \in 1..n}

\* The then-change lists of the blocks of a file: no block, one block naming
\* up to MaxTargets targets, or two blocks naming one target each
BlockLists ==
    {<<>>} \cup {<<ts>> : ts \in SeqsUpTo(Paths, MaxTargets)}
           \cup {<<<<t>>, <<u>>>> : t \in Paths, u \in Paths}

File(exists, content) == [exists |-> exists, content |-> content]

MissingFile == File(FALSE, None)

\* A path that exists and cannot be read as text (a directory)
UnreadableFile == File(TRUE, None)

IrregularFiles == {MissingFile, UnreadableFile, File(TRUE, Some(MalformedText))}

RegularFiles == {File(TRUE, Some(FileText(bs))) : bs \in BlockLists}

\* The files with at most one block naming one target
PlainFiles == {File(TRUE, Some(FileText(bs))) : bs \in {<<>>} \cup {<<<<t>>>> : t \in Paths}}

FileSystems ==
    {f \in [Paths -> IrregularFiles \cup RegularFiles] :
        \A p \in Paths :
            \/ f[p] \in PlainFiles
            \/ p \in RichPaths /\ f[p] \in RegularFiles
            \/ p \in IrregularPaths /\ f[p] \in IrregularFiles}

\* unidiff::Line of type "+", "-" or " ": target_line_no is 1-indexed and absent
\* on a removed line.  lines_above is not a field of the program: it records
\* where the line sits in the file after the diff, as the number of lines of
\* that file above it (for an added or context line, its 0-indexed line number).
Line(type, above) ==
    [line_type |-> type,
     target_line_no |-> IF type = "-" THEN None ELSE Some(above + 1),
     lines_above |-> above]

is_added(line) == line.line_type = "+"

is_removed(line) == line.line_type = "-"

\* A hunk that adds line l (0-indexed) of a file of n lines, with one line of
\* context on each side where the file has one
AddHunk(l, n) ==
    (IF l > 0 THEN <<Line(" ", l - 1)>> ELSE <<>>)
        \o <<Line("+", l)>>
        \o (IF l + 1 < n THEN <<Line(" ", l + 1)>> ELSE <<>>)

RECURSIVE SetToSortedSeq(_)
SetToSortedSeq(S) ==
    IF S = {}
    THEN <<>>
    ELSE LET m == CHOOSE v \in S : \A w \in S : v <= w
         IN  <<m>> \o SetToSortedSeq(S \ {m})

\* The hunks of a diff that adds the lines of set ls to a file of n lines
AddHunks(ls, n) ==
    LET order == SetToSortedSeq(ls) IN [k \in 1..Len(order) |-> AddHunk(order[k], n)]

\* The source lines that directly follow an if-change line (0-indexed)
LinesInsideBlocks(text) ==
    {l \in 1..(Len(text) - 1) : text[l + 1] = SrcLine /\ text[l] = IfLine}

\* The changes a diff makes to a file: it adds lines inside any of its blocks,
\* or else its first line, which lies outside every block
ChangedLineSets(file) ==
    IF IsSome(file.content)
    THEN {{0}} \cup (SUBSET LinesInsideBlocks(Unwrap(file.content)) \ {{}})
    ELSE {{0}}

TextLen(file) == IF IsSome(file.content) THEN Len(Unwrap(file.content)) ELSE 1

\* unidiff::PatchedFile of a git diff
PatchedFile(source_file, target_file, hunks) ==
    [source_file |-> source_file, target_file |-> target_file, hunks |-> hunks]

GitPatchedFile(path, hunks) ==
    PatchedFile(<<"a", "/">> \o path, <<"b", "/">> \o path, hunks)

DevNull == <<"/", "dev", "/", "null">>

starts_with(s, prefix) == Len(s) >= Len(prefix) /\ SubSeq(s, 1, Len(prefix)) = prefix

\* The diffs over a file system: per path, absent from the diff (None) or
\* the set of its changed lines; at least one path stays outside the diff
DiffChoices(f) ==
    LET opts(p) == {None} \cup {Some(ls) : ls \in ChangedLineSets(f[p])}
    IN  {d \in [Paths -> UNION {opts(p) : p \in Paths}] :
            /\ \A p \in Paths : d[p] \in opts(p)
            /\ \E p \in Paths : d[p] = None}

RECURSIVE PathsToSeq(_)
PathsToSeq(S) ==
    IF S = {}
    THEN <<>>
    ELSE LET m == CHOOSE v \in S : \A w \in S : StrCmp(v, w) <= 0
         IN  <<m>> \o PathsToSeq(S \ {m})

\* The patch set of a diff choice, its files in path order
PatchSetOf(f, d) ==
    LET order == PathsToSeq({p \in Paths : IsSome(d[p])})
    IN  [k \in 1..Len(order) |->
            GitPatchedFile(order[k], AddHunks(Unwrap(d[order[k]]), TextLen(f[order[k]])))]

VARIABLES
    is_git_diff,                \* the input starts with "diff --git"
    patch_set,                  \* the parsed diff: a sequence of patched files
    fs,                         \* the files on disk, by path
    pc,                         \* the position of run()
    diffs_by_post_diff_path,    \* path -> patched file
    search,                     \* the BFS queue of (diagnostic_if_read_fails, path)
    ret,                        \* file_nodes_by_path: path -> blocks
    modified_blocks_by_path,    \* path -> the touched blocks
    diagnostics,                \* the diagnostics collected so far
    stdout,                     \* the lines printed
    read_log,                   \* the paths given to read_to_string, in order
    touch,                      \* the walk of one block over the hunks of its file
    parser,                     \* the walk of Parser::parse over the lines of one file
    first_run,                  \* the lines printed by the run before this one, if any
    display                     \* one call of the Display of a position or of a diagnostic

vars ==
    <<is_git_diff, patch_set, fs, pc, diffs_by_post_diff_path, search, ret,
      modified_blocks_by_path, diagnostics, stdout, read_log, touch, parser, first_run,
      display>>

inputs == <<is_git_diff, patch_set, fs>>

EmptyMap == [p \in {} |-> <<>>]

MapInsert(m, k, v) == [p \in DOMAIN m \cup {k} |-> IF p = k THEN v ELSE m[p]]

\* std::path::Path::exists
Exists(path) == path \in DOMAIN fs /\ fs[path].exists

\* std::fs::read_to_string succeeds
Readable(path) == path \in DOMAIN fs /\ IsSome(fs[path].content)

Content(path) == Unwrap(fs[path].content)

InitRun(gd, ps, f) ==
    /\ is_git_diff = gd
    /\ patch_set = ps
    /\ fs = f
    /\ pc = "start"
    /\ diffs_by_post_diff_path = EmptyMap
    /\ search = <<>>
    /\ ret = EmptyMap
    /\ modified_blocks_by_path = EmptyMap
    /\ diagnostics = <<>>
    /\ stdout = <<>>
    /\ read_log = <<>>
    /\ touch = [at |-> "idle"]
    /\ parser = [at |-> "idle"]
    /\ first_run = None
    /\ display = [at |-> "idle"]

(***************************************************************************)
(* run(), step 1: diffs_by_post_diff_path and the initial BFS queue.       *)
(***************************************************************************)
InvalidGitDiffDiagnostic(patched_file) ==
    Diagnostic(<<"stdin">>, None, None,
               "invalid git diff: expected a/before.path -> b/after.path, but got '",
               patched_file.source_file \o <<"'", " ", "-", ">", " ", "'">>
                   \o patched_file.target_file \o <<"'">>)

\* FilterMapPatchedFile that reports a pair breaking the convention and keeps it
FilterMapPatchedFile_KeepInvalid(gd, patched_file) ==
    IF gd
    THEN LET source_path_valid ==
                 starts_with(patched_file.source_file, <<"a", "/">>)
                     \/ patched_file.source_file = DevNull
             target_path_valid ==
                 starts_with(patched_file.target_file, <<"b", "/">>)
                     \/ patched_file.target_file = DevNull
             invalid == IF ~source_path_valid \/ ~target_path_valid
                        THEN Some(InvalidGitDiffDiagnostic(patched_file))
                        ELSE None
         IN  IF starts_with(patched_file.target_file, <<"b", "/">>)
             THEN [diagnostic |-> invalid,
                   entry |-> Some([key |-> SubSeq(patched_file.target_file, 3,
                                                  Len(patched_file.target_file)),
                                   value |-> patched_file])]
             ELSE [diagnostic |-> invalid, entry |-> None]
    ELSE IF patched_file.target_file = DevNull
         THEN [diagnostic |-> None, entry |-> None]
         ELSE [diagnostic |-> None,
               entry |-> Some([key |-> patched_file.target_file, value |-> patched_file])]

\* FilterMapPatchedFile that keeps the deleted files of a plain diff
FilterMapPatchedFile_IndexDeleted(gd, patched_file) ==
    IF gd
    THEN LET source_path_valid ==
                 starts_with(patched_file.source_file, <<"a", "/">>)
                     \/ patched_file.source_file = DevNull
             target_path_valid ==
                 starts_with(patched_file.target_file, <<"b", "/">>)
                     \/ patched_file.target_file = DevNull
         IN  IF ~source_path_valid \/ ~target_path_valid
             THEN [diagnostic |-> Some(InvalidGitDiffDiagnostic(patched_file)), entry |-> None]
             ELSE IF starts_with(patched_file.target_file, <<"b", "/">>)
             THEN [diagnostic |-> None,
                   entry |-> Some([key |-> SubSeq(patched_file.target_file, 3,
                                                  Len(patched_file.target_file)),
                                   value |-> patched_file])]
             ELSE [diagnostic |-> None, entry |-> None]
    ELSE [diagnostic |-> None,
          entry |-> Some([key |-> patched_file.target_file, value |-> patched_file])]

\* The closure given to filter_map: the diagnostic pushed (if any) and the
\* (key, patched file) pair returned (if any)
FilterMapPatchedFile(gd, patched_file) ==
    IF gd
    THEN LET source_path_valid ==
                 starts_with(patched_file.source_file, <<"a", "/">>)
                     \/ patched_file.source_file = DevNull
             target_path_valid ==
                 starts_with(patched_file.target_file, <<"b", "/">>)
                     \/ patched_file.target_file = DevNull
         IN  IF ~source_path_valid \/ ~target_path_valid
             THEN [diagnostic |-> Some(InvalidGitDiffDiagnostic(patched_file)), entry |-> None]
             ELSE IF starts_with(patched_file.target_file, <<"b", "/">>)
             THEN [diagnostic |-> None,
                   entry |-> Some([key |-> SubSeq(patched_file.target_file, 3,
                                                  Len(patched_file.target_file)),
                                   value |-> patched_file])]
             ELSE [diagnostic |-> None, entry |-> None]
    ELSE IF patched_file.target_file = DevNull
         THEN [diagnostic |-> None, entry |-> None]
         ELSE [diagnostic |-> None,
               entry |-> Some([key |-> patched_file.target_file, value |-> patched_file])]

\* filter_map(...).collect::<HashMap>() over the patched files from k on; a
\* later file of the same key replaces the earlier one
RECURSIVE CollectDiffs(_, _, _, _)
CollectDiffs(gd, ps, k, acc) ==
    IF k > Len(ps)
    THEN acc
    ELSE LET r == FilterMapPatchedFile(gd, ps[k])
         IN  CollectDiffs(gd, ps, k + 1,
                 [map |-> IF IsSome(r.entry)
                          THEN MapInsert(acc.map, Unwrap(r.entry).key, Unwrap(r.entry).value)
                          ELSE acc.map,
                  diagnostics |-> acc.diagnostics \o r.diagnostic])

\* The diagnostic of a diff file that cannot be read, placed at the file
DiffReadFailsDiagnostic_AtPath(path) ==
    Diagnostic(path, None, None, "diff references file that does not exist: '",
               path \o <<"'">>)

DiffReadFailsDiagnostic(path) ==
    Diagnostic(<<"stdin">>, None, None, "diff references file that does not exist: '",
               path \o <<"'">>)

SearchEntry(diagnostic_if_read_fails, path) ==
    [diagnostic_if_read_fails |-> diagnostic_if_read_fails, path |-> path]

\* The orders in which a HashMap may iterate over the keys ks
KeyOrders(ks) ==
    {o \in [1..Cardinality(ks) -> ks] : \A i, j \in DOMAIN o : i # j => o[i] # o[j]}

BuildDiffIndex ==
    /\ pc = "start"
    /\ LET r == CollectDiffs(is_git_diff, patch_set, 1,
                             [map |-> EmptyMap, diagnostics |-> diagnostics])
       IN  /\ diffs_by_post_diff_path' = r.map
           /\ diagnostics' = r.diagnostics
           /\ \E order \in KeyOrders(DOMAIN r.map) :
                  search' = [k \in DOMAIN order |->
                                SearchEntry(DiffReadFailsDiagnostic(order[k]), order[k])]
    /\ pc' = "search"
    /\ UNCHANGED <<inputs, touch, parser, first_run, display, ret, modified_blocks_by_path, stdout, read_log>>

(***************************************************************************)
(* run(), step 2: the BFS that fills file_nodes_by_path.                   *)
(***************************************************************************)
ThenChangeMissingDiagnostic(block_path, lineno, target) ==
    Diagnostic(block_path, Some(lineno), None,
               "then-change references file that does not exist: '", target \o <<"'">>)

ThenChangeUnreadableDiagnostic(block_path, lineno, target) ==
    Diagnostic(block_path, Some(lineno), None,
               "then-change references file that could not be read: '", target \o <<"'">>)

\* FilterThenChange that queues a target whether or not the index holds it
FilterThenChange_AlwaysQueue(acc, block_path, entry) ==
    LET then_change_lineno == entry[1]
        then_change_key == entry[2]
    IN  IF then_change_key.path \in DOMAIN diffs_by_post_diff_path
        THEN [acc EXCEPT !.kept = Append(@, entry)]
        ELSE IF block_path = then_change_key.path
        THEN acc
        ELSE IF ~Exists(then_change_key.path)
        THEN [acc EXCEPT !.diagnostics =
                 Append(@, ThenChangeMissingDiagnostic(block_path, then_change_lineno,
                                                       then_change_key.path))]
        ELSE [acc EXCEPT
                 !.kept = Append(@, entry),
                 !.search = Append(@, SearchEntry(
                     ThenChangeUnreadableDiagnostic(block_path, then_change_lineno,
                                                    then_change_key.path),
                     then_change_key.path))]

\* FilterThenChange that queues the targets of the diff's files only
FilterThenChange_OneHop(acc, block_path, entry) ==
    LET then_change_lineno == entry[1]
        then_change_key == entry[2]
    IN  IF then_change_key.path \in DOMAIN diffs_by_post_diff_path
        THEN [acc EXCEPT !.kept = Append(@, entry)]
        ELSE IF block_path = then_change_key.path
        THEN acc
        ELSE IF ~Exists(then_change_key.path)
        THEN [acc EXCEPT !.diagnostics =
                 Append(@, ThenChangeMissingDiagnostic(block_path, then_change_lineno,
                                                       then_change_key.path))]
        ELSE IF then_change_key.path \notin DOMAIN ret
                /\ block_path \in DOMAIN diffs_by_post_diff_path
        THEN [acc EXCEPT
                 !.kept = Append(@, entry),
                 !.search = Append(@, SearchEntry(
                     ThenChangeUnreadableDiagnostic(block_path, then_change_lineno,
                                                    then_change_key.path),
                     then_change_key.path))]
        ELSE [acc EXCEPT !.kept = Append(@, entry)]

\* FilterThenChange that drops an entry naming the block's own file before it
\* looks at the diff
FilterThenChange_SelfFirst(acc, block_path, entry) ==
    LET then_change_lineno == entry[1]
        then_change_key == entry[2]
    IN  IF block_path = then_change_key.path
        THEN acc
        ELSE IF then_change_key.path \in DOMAIN diffs_by_post_diff_path
        THEN [acc EXCEPT !.kept = Append(@, entry)]
        ELSE IF ~Exists(then_change_key.path)
        THEN [acc EXCEPT !.diagnostics =
                 Append(@, ThenChangeMissingDiagnostic(block_path, then_change_lineno,
                                                       then_change_key.path))]
        ELSE IF then_change_key.path \notin DOMAIN ret
        THEN [acc EXCEPT
                 !.kept = Append(@, entry),
                 !.search = Append(@, SearchEntry(
                     ThenChangeUnreadableDiagnostic(block_path, then_change_lineno,
                                                    then_change_key.path),
                     then_change_key.path))]
        ELSE [acc EXCEPT !.kept = Append(@, entry)]

\* The closure given to filter for one then_change entry of a block of
\* block_path: acc carries the entries kept, the diagnostics and the queue
FilterThenChange(acc, block_path, entry) ==
    LET then_change_lineno == entry[1]
        then_change_key == entry[2]
    IN  IF then_change_key.path \in DOMAIN diffs_by_post_diff_path
        THEN [acc EXCEPT !.kept = Append(@, entry)]
        ELSE IF block_path = then_change_key.path
        THEN acc
        ELSE IF ~Exists(then_change_key.path)
        THEN [acc EXCEPT !.diagnostics =
                 Append(@, ThenChangeMissingDiagnostic(block_path, then_change_lineno,
                                                       then_change_key.path))]
        ELSE IF then_change_key.path \notin DOMAIN ret
        THEN [acc EXCEPT
                 !.kept = Append(@, entry),
                 !.search = Append(@, SearchEntry(
                     ThenChangeUnreadableDiagnostic(block_path, then_change_lineno,
                                                    then_change_key.path),
                     then_change_key.path))]
        ELSE [acc EXCEPT !.kept = Append(@, entry)]

\* block.then_change.drain(..).filter(...).collect() from entry e on
RECURSIVE FilterBlock(_, _, _, _)
FilterBlock(acc, block_path, then_change, e) ==
    IF e > Len(then_change)
    THEN acc
    ELSE FilterBlock(FilterThenChange(acc, block_path, then_change[e]), block_path,
                     then_change, e + 1)

\* for block in file_node.blocks.iter_mut(), from block k on
RECURSIVE FilterBlocks(_, _, _)
FilterBlocks(acc, blocks, k) ==
    IF k > Len(blocks)
    THEN acc
    ELSE LET r == FilterBlock([acc EXCEPT !.kept = <<>>], blocks[k].key.path,
                              blocks[k].then_change, 1)
         IN  FilterBlocks([r EXCEPT !.blocks =
                              Append(@, [blocks[k] EXCEPT !.then_change = r.kept])],
                          blocks, k + 1)

\* One iteration of the loop: pop a path, read it, parse it, filter its blocks
SearchStep ==
    /\ pc = "search"
    /\ search # <<>>
    /\ LET diagnostic_if_read_fails == Head(search).diagnostic_if_read_fails
           path == Head(search).path
       IN  /\ read_log' = Append(read_log, path)
           /\ IF ~Readable(path)
              THEN /\ diagnostics' = Append(diagnostics, diagnostic_if_read_fails)
                   /\ search' = Tail(search)
                   /\ ret' = ret
              ELSE LET parsed == from_str(path, Content(path))
                   IN  IF ~parsed.ok
                       THEN /\ diagnostics' = diagnostics \o parsed.diagnostics
                            /\ search' = Tail(search)
                            /\ ret' = ret
                       ELSE LET r == FilterBlocks([kept |-> <<>>, blocks |-> <<>>,
                                                   diagnostics |-> diagnostics,
                                                   search |-> Tail(search)],
                                                  parsed.blocks, 1)
                            IN  /\ diagnostics' = r.diagnostics
                                /\ search' = r.search
                                /\ ret' = MapInsert(ret, path, r.blocks)
    /\ UNCHANGED <<inputs, touch, parser, first_run, display, pc, diffs_by_post_diff_path, modified_blocks_by_path, stdout>>

(***************************************************************************)
(* run(), step 3: modified_blocks_by_path.                                 *)
(***************************************************************************)
\* The body of "for line in hunk.lines()": st carries in_ictc_block and
\* intersects_any_hunk
HunkLineStep(st, ictc_block, line) ==
    LET in_ictc_block ==
            IF IsSome(line.target_line_no)
            THEN RangeContains(content_range(ictc_block), Unwrap(line.target_line_no) - 1)
            ELSE st.in_ictc_block
    IN  [in_ictc_block |-> in_ictc_block,
         intersects_any_hunk |->
             st.intersects_any_hunk
                 \/ (in_ictc_block /\ (is_added(line) \/ is_removed(line)))]

RECURSIVE HunkLines(_, _, _, _)
HunkLines(st, ictc_block, hunk, l) ==
    IF l > Len(hunk)
    THEN st
    ELSE HunkLines(HunkLineStep(st, ictc_block, hunk[l]), ictc_block, hunk, l + 1)

\* "for hunk in diff.hunks()": in_ictc_block starts false in every hunk
RECURSIVE IntersectsAnyHunk(_, _, _, _)
IntersectsAnyHunk(intersects_any_hunk, ictc_block, hunks, h) ==
    IF h > Len(hunks)
    THEN intersects_any_hunk
    ELSE IntersectsAnyHunk(
             HunkLines([in_ictc_block |-> FALSE, intersects_any_hunk |-> intersects_any_hunk],
                       ictc_block, hunks[h], 1).intersects_any_hunk,
             ictc_block, hunks, h + 1)

\* The blocks of a file that the hunks touch, in file order
ModifiedBlocks(blocks, hunks) ==
    SelectSeq(blocks, LAMBDA b : IntersectsAnyHunk(FALSE, b, hunks, 1))

\* The loop is over; modified_blocks_by_path is built from the index
ComputeModified ==
    /\ pc = "search"
    /\ search = <<>>
    /\ LET touched == {path \in DOMAIN ret \cap DOMAIN diffs_by_post_diff_path :
                          ModifiedBlocks(ret[path], diffs_by_post_diff_path[path].hunks) # <<>>}
       IN  modified_blocks_by_path' =
               [path \in touched |->
                   ModifiedBlocks(ret[path], diffs_by_post_diff_path[path].hunks)]
    /\ pc' = "correlate"
    /\ UNCHANGED <<inputs, touch, parser, first_run, display, diffs_by_post_diff_path, search, ret, diagnostics, stdout, read_log>>

(***************************************************************************)
(* run(), step 4: the diagnostics of the touched blocks.                   *)
(***************************************************************************)
ExpectedAnnotationDiagnostic(path, block_range, ictc_block) ==
    Diagnostic(path,
               IF IsSome(block_range) THEN Some(Unwrap(block_range).start) ELSE None,
               IF IsSome(block_range) THEN Some(Unwrap(block_range).end) ELSE None,
               "expected an if-change-then-change in this file that matches ",
               BlockPositionFmt(ictc_block))

ExpectedChangeDiagnostic(path, block_range, ictc_block) ==
    Diagnostic(path,
               IF IsSome(block_range) THEN Some(Unwrap(block_range).start) ELSE None,
               IF IsSome(block_range) THEN Some(Unwrap(block_range).end) ELSE None,
               "expected change here due to change in ",
               BlockPositionFmt(ictc_block))

\* CorrelateEntry that pushes nothing for a target the index does not hold
CorrelateEntry_SkipUnindexed(ictc_block, then_change_key) ==
    LET satisfied ==
            /\ then_change_key.path \in DOMAIN modified_blocks_by_path
            /\ IsSome(get_corresponding_block(modified_blocks_by_path[then_change_key.path],
                                              ictc_block))
        found ==
            IF then_change_key.path \in DOMAIN ret
            THEN get_corresponding_block(ret[then_change_key.path], ictc_block)
            ELSE None
        block_range == IF IsSome(found) THEN Some(content_range(Unwrap(found))) ELSE None
    IN  IF satisfied \/ then_change_key.path \notin DOMAIN ret
        THEN <<>>
        ELSE (IF block_range = None
              THEN <<ExpectedAnnotationDiagnostic(then_change_key.path, block_range, ictc_block)>>
              ELSE <<>>)
             \o (IF IsSome(block_range)
                    \/ then_change_key.path \notin DOMAIN diffs_by_post_diff_path
                 THEN <<ExpectedChangeDiagnostic(then_change_key.path, block_range, ictc_block)>>
                 ELSE <<>>)

\* CorrelateEntry without the "continue" of a satisfied obligation
CorrelateEntry_NoContinue(ictc_block, then_change_key) ==
    LET found ==
            IF then_change_key.path \in DOMAIN ret
            THEN get_corresponding_block(ret[then_change_key.path], ictc_block)
            ELSE None
        block_range == IF IsSome(found) THEN Some(content_range(Unwrap(found))) ELSE None
    IN  (IF block_range = None
         THEN <<ExpectedAnnotationDiagnostic(then_change_key.path, block_range, ictc_block)>>
         ELSE <<>>)
        \o (IF IsSome(block_range)
               \/ then_change_key.path \notin DOMAIN diffs_by_post_diff_path
            THEN <<ExpectedChangeDiagnostic(then_change_key.path, block_range, ictc_block)>>
            ELSE <<>>)

\* CorrelateEntry whose second diagnostic needs a block range
CorrelateEntry_RangeOnly(ictc_block, then_change_key) ==
    LET satisfied ==
            /\ then_change_key.path \in DOMAIN modified_blocks_by_path
            /\ IsSome(get_corresponding_block(modified_blocks_by_path[then_change_key.path],
                                              ictc_block))
        found ==
            IF then_change_key.path \in DOMAIN ret
            THEN get_corresponding_block(ret[then_change_key.path], ictc_block)
            ELSE None
        block_range == IF IsSome(found) THEN Some(content_range(Unwrap(found))) ELSE None
    IN  IF satisfied
        THEN <<>>
        ELSE (IF block_range = None
              THEN <<ExpectedAnnotationDiagnostic(then_change_key.path, block_range, ictc_block)>>
              ELSE <<>>)
             \o (IF IsSome(block_range)
                 THEN <<ExpectedChangeDiagnostic(then_change_key.path, block_range, ictc_block)>>
                 ELSE <<>>)

\* CorrelateEntry whose second diagnostic has no condition
CorrelateEntry_AlwaysChange(ictc_block, then_change_key) ==
    LET satisfied ==
            /\ then_change_key.path \in DOMAIN modified_blocks_by_path
            /\ IsSome(get_corresponding_block(modified_blocks_by_path[then_change_key.path],
                                              ictc_block))
        found ==
            IF then_change_key.path \in DOMAIN ret
            THEN get_corresponding_block(ret[then_change_key.path], ictc_block)
            ELSE None
        block_range == IF IsSome(found) THEN Some(content_range(Unwrap(found))) ELSE None
    IN  IF satisfied
        THEN <<>>
        ELSE (IF block_range = None
              THEN <<ExpectedAnnotationDiagnostic(then_change_key.path, block_range, ictc_block)>>
              ELSE <<>>)
             \o <<ExpectedChangeDiagnostic(then_change_key.path, block_range, ictc_block)>>

\* CorrelateEntry that reports a missing annotation and nothing else
CorrelateEntry_AnnotationOnly(ictc_block, then_change_key) ==
    LET satisfied ==
            /\ then_change_key.path \in DOMAIN modified_blocks_by_path
            /\ IsSome(get_corresponding_block(modified_blocks_by_path[then_change_key.path],
                                              ictc_block))
        found ==
            IF then_change_key.path \in DOMAIN ret
            THEN get_corresponding_block(ret[then_change_key.path], ictc_block)
            ELSE None
        block_range == IF IsSome(found) THEN Some(content_range(Unwrap(found))) ELSE None
    IN  IF satisfied
        THEN <<>>
        ELSE IF block_range = None
        THEN <<ExpectedAnnotationDiagnostic(then_change_key.path, block_range, ictc_block)>>
        ELSE <<>>

\* The body of "for (_, then_change_key) in ictc_block.then_change.iter()":
\* the diagnostics it pushes
CorrelateEntry(ictc_block, then_change_key) ==
    LET satisfied ==
            /\ then_change_key.path \in DOMAIN modified_blocks_by_path
            /\ IsSome(get_corresponding_block(modified_blocks_by_path[then_change_key.path],
                                              ictc_block))
        found ==
            IF then_change_key.path \in DOMAIN ret
            THEN get_corresponding_block(ret[then_change_key.path], ictc_block)
            ELSE None
        block_range == IF IsSome(found) THEN Some(content_range(Unwrap(found))) ELSE None
    IN  IF satisfied
        THEN <<>>
        ELSE (IF block_range = None
              THEN <<ExpectedAnnotationDiagnostic(then_change_key.path, block_range, ictc_block)>>
              ELSE <<>>)
             \o (IF IsSome(block_range)
                    \/ then_change_key.path \notin DOMAIN diffs_by_post_diff_path
                 THEN <<ExpectedChangeDiagnostic(then_change_key.path, block_range, ictc_block)>>
                 ELSE <<>>)

RECURSIVE CorrelateBlock(_, _)
CorrelateBlock(ictc_block, e) ==
    IF e > Len(ictc_block.then_change)
    THEN <<>>
    ELSE CorrelateEntry(ictc_block, ictc_block.then_change[e][2])
             \o CorrelateBlock(ictc_block, e + 1)

RECURSIVE CorrelateBlocks(_, _)
CorrelateBlocks(blocks, k) ==
    IF k > Len(blocks)
    THEN <<>>
    ELSE CorrelateBlock(blocks[k], 1) \o CorrelateBlocks(blocks, k + 1)

\* modified_blocks_by_path.values().flat_map(blocks), the files in the order given
RECURSIVE CorrelateFiles(_, _)
CorrelateFiles(order, k) ==
    IF k > Len(order)
    THEN <<>>
    ELSE CorrelateBlocks(modified_blocks_by_path[order[k]], 1) \o CorrelateFiles(order, k + 1)

Correlate ==
    /\ pc = "correlate"
    /\ \E order \in KeyOrders(DOMAIN modified_blocks_by_path) :
           diagnostics' = diagnostics \o CorrelateFiles(order, 1)
    /\ pc' = "sort"
    /\ UNCHANGED <<inputs, touch, parser, first_run, display, diffs_by_post_diff_path, search, ret, modified_blocks_by_path,
                   stdout, read_log>>

(***************************************************************************)
(* run(), step 5: sort and print.                                          *)
(***************************************************************************)
SortAndPrint ==
    /\ pc = "sort"
    /\ diagnostics' = sort(diagnostics)
    /\ stdout' = [k \in 1..Len(diagnostics) |-> DiagnosticFmt(sort(diagnostics)[k])]
    /\ pc' = "done"
    /\ UNCHANGED <<inputs, touch, parser, first_run, display, diffs_by_post_diff_path, search, ret, modified_blocks_by_path,
                   read_log>>

Init == \E f \in FileSystems : \E d \in DiffChoices(f) : InitRun(TRUE, PatchSetOf(f, d), f)

Next ==
    \/ BuildDiffIndex
    \/ SearchStep
    \/ ComputeModified
    \/ Correlate
    \/ SortAndPrint

Spec == Init /\ [][Next]_vars

(***************************************************************************)
(* Two runs of the program on the same diff and the same files.  The files *)
(* form chains: each names at most one path later in the alphabet, so that *)
(* a file can be reached from the diff at several depths of the search.    *)
(***************************************************************************)
ChainPaths == {<<"a">>, <<"b">>, <<"c">>, <<"d">>, <<"e">>}

\* The most files the diff of the two runs names
MaxDiffFiles == 2

\* The last path of the chains, the one that may be missing
LastChainPath == <<"e">>

\* The contents of the file at p: no block, or one block naming a later path
ChainFiles(p) ==
    {File(TRUE, Some(FileText(<<>>)))}
        \cup {File(TRUE, Some(FileText(<<<<t>>>>))) : t \in {u \in ChainPaths : StrCmp(p, u) < 0}}

ChainFileSystems ==
    {f \in [ChainPaths -> {MissingFile} \cup UNION {ChainFiles(p) : p \in ChainPaths}] :
        \A p \in ChainPaths :
            \/ f[p] \in ChainFiles(p)
            \/ p = LastChainPath /\ f[p] = MissingFile}

\* The diffs over the chains: up to MaxDiffFiles files on disk, each with
\* its first line added
ChainDiffs(f) ==
    {S \in SUBSET {p \in ChainPaths : f[p].exists} :
        Cardinality(S) >= 1 /\ Cardinality(S) <= MaxDiffFiles}

ChainPatchSet(f, S) ==
    LET order == PathsToSeq(S)
    IN  [k \in 1..Len(order) |->
            GitPatchedFile(order[k], AddHunks({0}, TextLen(f[order[k]])))]

\* The program is started again on the same input once the first run has
\* printed its lines
RunAgain ==
    /\ pc = "done"
    /\ first_run = None
    /\ display = [at |-> "idle"]
    /\ first_run' = Some(stdout)
    /\ pc' = "start"
    /\ diffs_by_post_diff_path' = EmptyMap
    /\ search' = <<>>
    /\ ret' = EmptyMap
    /\ modified_blocks_by_path' = EmptyMap
    /\ diagnostics' = <<>>
    /\ stdout' = <<>>
    /\ read_log' = <<>>
    /\ UNCHANGED <<inputs, touch, parser, display>>

InitTwice ==
    \E f \in ChainFileSystems : \E S \in ChainDiffs(f) : InitRun(TRUE, ChainPatchSet(f, S), f)

NextTwice ==
    \/ Next
    \/ RunAgain

SpecTwice == InitTwice /\ [][NextTwice]_vars

(***************************************************************************)
(* The run over diffs of every shape of file pair: git-style and plain,    *)
(* files changed, added and deleted, and pairs that break the a/ -> b/     *)
(* convention of a git diff.                                               *)
(***************************************************************************)
\* The most file pairs such a diff holds
MaxDiffPairs == 2

\* A file without blocks
NoBlockFile == File(TRUE, Some(FileText(<<>>)))

\* A file of one block naming t
OneBlockFile(t) == File(TRUE, Some(FileText(<<<<t>>>>)))

\* The files under such a diff: a names b or c, b names a, c may be missing,
\* unreadable or malformed
PairFileSystems ==
    {f \in [Paths -> IrregularFiles \cup PlainFiles] :
        /\ f[<<"a">>] \in {NoBlockFile, OneBlockFile(<<"b">>), OneBlockFile(<<"c">>)}
        /\ f[<<"b">>] \in {NoBlockFile, OneBlockFile(<<"a">>)}
        /\ f[<<"c">>] \in IrregularFiles \cup {NoBlockFile}}

\* The hunks of a file that is kept: a line added inside its first block, or
\* else its first line
KeptHunks(file) ==
    IF IsSome(file.content) /\ LinesInsideBlocks(Unwrap(file.content)) # {}
    THEN AddHunks({CHOOSE l \in LinesInsideBlocks(Unwrap(file.content)) :
                      \A m \in LinesInsideBlocks(Unwrap(file.content)) : l <= m},
                  TextLen(file))
    ELSE AddHunks({0}, TextLen(file))

\* The hunk of a deleted file: its line removed
DeletedHunks == <<<<Line("-", 0)>>>>

\* The file pairs a diff may hold for the file at p: changed, added, deleted,
\* written as a git diff or a plain diff writes them, or with one side of a
\* git diff without its prefix
FilePairs(f, p) ==
    {PatchedFile(<<"a", "/">> \o p, <<"b", "/">> \o p, KeptHunks(f[p])),
     PatchedFile(DevNull, <<"b", "/">> \o p, KeptHunks(f[p])),
     PatchedFile(<<"a", "/">> \o p, DevNull, DeletedHunks),
     PatchedFile(p, <<"b", "/">> \o p, KeptHunks(f[p])),
     PatchedFile(<<"a", "/">> \o p, p, KeptHunks(f[p])),
     PatchedFile(p, p, KeptHunks(f[p])),
     PatchedFile(p, DevNull, DeletedHunks),
     PatchedFile(DevNull, p, KeptHunks(f[p]))}

\* The diffs of up to MaxDiffPairs pairs, each about another file, in path order
PairPatchSets(f) ==
    UNION {{ps \in [1..Cardinality(S) -> UNION {FilePairs(f, p) : p \in S}] :
               \A k \in 1..Cardinality(S) : ps[k] \in FilePairs(f, PathsToSeq(S)[k])} :
           S \in {T \in SUBSET Paths : Cardinality(T) >= 1 /\ Cardinality(T) <= MaxDiffPairs}}

InitPairs ==
    \E gd \in BOOLEAN : \E f \in PairFileSystems : \E ps \in PairPatchSets(f) : InitRun(gd, ps, f)

SpecPairs == InitPairs /\ [][Next]_vars

(***************************************************************************)
(* run() on diffs that remove lines as well as add them.                   *)
(***************************************************************************)
\* The last lines of the inline blocks of a text (0-indexed)
InlineBlockEnds(text) ==
    {l \in 0..(Len(text) - 1) : \E t \in Paths : text[l + 1] = ThenInlineLine(t)}

\* The hunks a diff may hold for a file: its first line added; a line added
\* inside a block; a line removed inside a block, the hunk starting with it;
\* the last line of a block as context and, removed, the line that stood
\* right after it
MixedHunks(file) ==
    {AddHunks({0}, TextLen(file))}
        \cup (IF IsSome(file.content)
              THEN {AddHunks({l}, TextLen(file)) : l \in LinesInsideBlocks(Unwrap(file.content))}
                       \cup {<<<<Line("-", l)>>>> : l \in LinesInsideBlocks(Unwrap(file.content))}
                       \cup {<<<<Line(" ", l), Line("-", l + 1)>>>> :
                                l \in InlineBlockEnds(Unwrap(file.content))}
              ELSE {})

\* The git diffs over a file system: per path, absent from the diff (None) or
\* its hunks
MixedDiffs(f) ==
    {d \in [Paths -> {None} \cup UNION {{Some(h) : h \in MixedHunks(f[p])} : p \in Paths}] :
        /\ \A p \in Paths : d[p] = None \/ Unwrap(d[p]) \in MixedHunks(f[p])
        /\ \E p \in Paths : d[p] # None}

MixedPatchSet(d) ==
    LET order == PathsToSeq({p \in Paths : IsSome(d[p])})
    IN  [k \in 1..Len(order) |-> GitPatchedFile(order[k], Unwrap(d[order[k]]))]

InitRemovals ==
    \E f \in PairFileSystems : \E d \in MixedDiffs(f) : InitRun(TRUE, MixedPatchSet(d), f)

SpecRemovals == InitRemovals /\ [][Next]_vars

(***************************************************************************)
(* The walk that decides whether one block is touched (main.rs 196-214),   *)
(* one hunk line at a time, over the hunks of any small diff.              *)
(***************************************************************************)
\* The last line number (0-indexed) of the file the hunks are about
MaxLineNo == 4

\* The most lines the hunks of the file hold together
MaxHunkLines == 3

LineTypes == {" ", "+", "-"}

\* The hunk whose first line has `above` lines of the new file above it
RECURSIVE HunkOf(_, _)
HunkOf(above, types) ==
    IF types = <<>>
    THEN <<>>
    ELSE <<Line(Head(types), above)>>
             \o HunkOf(IF Head(types) = "-" THEN above ELSE above + 1, Tail(types))

\* The number of lines of the new file above the end of a hunk
HunkEnd(hunk) ==
    LET last == hunk[Len(hunk)]
    IN  IF is_removed(last) THEN last.lines_above ELSE last.lines_above + 1

\* The hunks a diff of a file of MaxLineNo + 1 lines may hold: one hunk, or
\* two with an unchanged line between them
TouchHunks ==
    LET one == {HunkOf(above, types) :
                    above \in 0..(MaxLineNo + 1), types \in SeqsUpTo(LineTypes, MaxHunkLines)}
        fits(hunk) == HunkEnd(hunk) <= MaxLineNo + 1
    IN  {<<h1>> : h1 \in {h \in one : fits(h)}}
            \cup {<<h1, h2>> : h1 \in {h \in one : fits(h)},
                               h2 \in {h \in one : fits(h) /\ Len(h) = 1}}

TouchHunksOk(hunks) ==
    /\ Len(hunks[1]) + (IF Len(hunks) > 1 THEN Len(hunks[2]) ELSE 0) <= MaxHunkLines
    /\ Len(hunks) > 1 => hunks[2][1].lines_above > HunkEnd(hunks[1])

\* A block of lines i..e whose inline then-change is its last line
TouchBlock(i, e) ==
    [key |-> BlockKey(<<"a">>), then_change |-> <<<<e, BlockKey(<<"b">>)>>>>,
     if_change_lineno |-> i, then_change_lineno |-> e, end_change_lineno |-> e]

TouchStart(block, hunks) ==
    [at |-> "lines", ictc_block |-> block, hunks |-> hunks, h |-> 1, l |-> 1,
     in_ictc_block |-> FALSE, intersects_any_hunk |-> FALSE, modified_blocks |-> <<>>]

\* for line in hunk.lines(): one line
TouchLine ==
    /\ touch.at = "lines"
    /\ touch.h <= Len(touch.hunks)
    /\ touch.l <= Len(touch.hunks[touch.h])
    /\ LET st == HunkLineStep([in_ictc_block |-> touch.in_ictc_block,
                               intersects_any_hunk |-> touch.intersects_any_hunk],
                              touch.ictc_block, touch.hunks[touch.h][touch.l])
       IN  touch' = [touch EXCEPT !.in_ictc_block = st.in_ictc_block,
                                  !.intersects_any_hunk = st.intersects_any_hunk,
                                  !.l = @ + 1]
    /\ UNCHANGED <<inputs, parser, first_run, display, pc, diffs_by_post_diff_path, search, ret,
                   modified_blocks_by_path, diagnostics, stdout, read_log>>

\* for hunk in diff.hunks(): the next hunk, in_ictc_block false again
TouchNextHunk ==
    /\ touch.at = "lines"
    /\ touch.h <= Len(touch.hunks)
    /\ touch.l > Len(touch.hunks[touch.h])
    /\ touch' = [touch EXCEPT !.h = @ + 1, !.l = 1, !.in_ictc_block = FALSE]
    /\ UNCHANGED <<inputs, parser, first_run, display, pc, diffs_by_post_diff_path, search, ret,
                   modified_blocks_by_path, diagnostics, stdout, read_log>>

\* if intersects_any_hunk { modified_blocks.push(ictc_block.clone()) }
TouchPush ==
    /\ touch.at = "lines"
    /\ touch.h > Len(touch.hunks)
    /\ touch' = [touch EXCEPT
                    !.at = "done",
                    !.modified_blocks =
                        IF touch.intersects_any_hunk THEN Append(@, touch.ictc_block) ELSE @]
    /\ UNCHANGED <<inputs, parser, first_run, display, pc, diffs_by_post_diff_path, search, ret,
                   modified_blocks_by_path, diagnostics, stdout, read_log>>

InitTouch ==
    /\ is_git_diff = TRUE
    /\ patch_set = <<>>
    /\ fs = [p \in Paths |-> MissingFile]
    /\ pc = "idle"
    /\ diffs_by_post_diff_path = EmptyMap
    /\ search = <<>>
    /\ ret = EmptyMap
    /\ modified_blocks_by_path = EmptyMap
    /\ diagnostics = <<>>
    /\ stdout = <<>>
    /\ read_log = <<>>
    /\ parser = [at |-> "idle"]
    /\ first_run = None
    /\ display = [at |-> "idle"]
    /\ \E i \in 0..MaxLineNo : \E e \in (i + 1)..MaxLineNo : \E hunks \in TouchHunks :
           /\ TouchHunksOk(hunks)
           /\ touch = TouchStart(TouchBlock(i, e), hunks)

NextTouch ==
    \/ TouchLine
    \/ TouchNextHunk
    \/ TouchPush

SpecTouch == InitTouch /\ [][NextTouch]_vars
(***************************************************************************)
(* Parser::parse line by line, over every short text of marker, target,    *)
(* comment and source lines.                                               *)
(***************************************************************************)
MaxParseLines == 4

\* A comment line without text: as a then-change target it trims to nothing
EmptyTargetLine == <<"#", " ">>

ParseLineChoices ==
    {SrcLine, IfLine, ThenInlineLine(<<"b">>), ThenBlockLine, EndLine, EmptyTargetLine}

ParseTexts == SeqsUpTo(ParseLineChoices, MaxParseLines)

\* for (i, line) in self.input_content.lines().enumerate(): line i.  tags is
\* not a field of the program: it keeps the tag of parse_state before the first
\* line and after each line read
ParseNextLine ==
    /\ parser.at = "lines"
    /\ parser.i < Len(parser.p.input_content)
    /\ \E q \in {ParseLine(parser.p, parser.i, parser.p.input_content[parser.i + 1])} :
           parser' = [parser EXCEPT !.p = q, !.i = @ + 1,
                                    !.tags = Append(@, q.parse_state.tag)]
    /\ UNCHANGED <<inputs, touch, first_run, display, pc, diffs_by_post_diff_path, search, ret,
                   modified_blocks_by_path, diagnostics, stdout, read_log>>

\* match self.parse_state after the last line
ParseEndOfInput ==
    /\ parser.at = "lines"
    /\ parser.i = Len(parser.p.input_content)
    /\ parser' = [parser EXCEPT !.p = ParseEof(parser.p), !.at = "eof"]
    /\ UNCHANGED <<inputs, touch, first_run, display, pc, diffs_by_post_diff_path, search, ret,
                   modified_blocks_by_path, diagnostics, stdout, read_log>>

\* return Err(self.errors) or Ok(self.block_nodes)
ParseReturn ==
    /\ parser.at = "eof"
    /\ parser' = [parser EXCEPT !.result = ParseResult(parser.p), !.at = "done"]
    /\ UNCHANGED <<inputs, touch, first_run, display, pc, diffs_by_post_diff_path, search, ret,
                   modified_blocks_by_path, diagnostics, stdout, read_log>>

InitParse ==
    /\ is_git_diff = TRUE
    /\ patch_set = <<>>
    /\ fs = [p \in Paths |-> MissingFile]
    /\ pc = "idle"
    /\ diffs_by_post_diff_path = EmptyMap
    /\ search = <<>>
    /\ ret = EmptyMap
    /\ modified_blocks_by_path = EmptyMap
    /\ diagnostics = <<>>
    /\ stdout = <<>>
    /\ read_log = <<>>
    /\ touch = [at |-> "idle"]
    /\ first_run = None
    /\ display = [at |-> "idle"]
    /\ \E text \in ParseTexts :
           parser = [at |-> "lines", p |-> ParserNew(<<"a">>, text), i |-> 0,
                     result |-> None, tags |-> <<"NoOp">>]

NextParse ==
    \/ ParseNextLine
    \/ ParseEndOfInput
    \/ ParseReturn

SpecParse == InitParse /\ [][NextParse]_vars

(***************************************************************************)
(* Parser::parse over texts written in several comment styles: a text is   *)
(* a sequence of logical lines, each written with a comment opener and     *)
(* closer and an indentation of its own.                                   *)
(***************************************************************************)
MaxIndent == 1

\* A comment style: the text before and after the body of a comment line
CommentStyle(open, close) == [open |-> open, close |-> close]

HashStyle == CommentStyle(<<"#", " ">>, <<>>)

CommentStyles ==
    {HashStyle,
     CommentStyle(<<"/", "/", " ">>, <<>>),
     CommentStyle(<<"-", "-", " ">>, <<>>),
     CommentStyle(<<"/", "*", " ">>, <<" ", "*", "/">>),
     CommentStyle(<<"<", "!", "-", "-", " ">>, <<" ", "-", "-", ">">>),
     CommentStyle(<<"/", "*">>, <<"*", "/">>)}

\* The kinds of logical line: the markers, a target line, a line of code,
\* and two comment lines whose text begins with a keyword and goes on
MarkerKinds == {"if-change", "then-change b", "then-change", "end-change"}

LineKinds == MarkerKinds \cup {"b", "x", "if-change-x", "end-change-x"}

\* The text of a logical line without its comment opener and closer
LineBody(kind) ==
    CASE kind = "if-change" -> <<"if-change">>
      [] kind = "then-change b" -> <<"then-change", " ", "b">>
      [] kind = "then-change" -> <<"then-change">>
      [] kind = "end-change" -> <<"end-change">>
      [] kind = "b" -> <<"b">>
      [] kind = "x" -> <<"x">>
      [] kind = "if-change-x" -> <<"if-change", "-", "x">>
      [] kind = "end-change-x" -> <<"end-change", "-", "x">>

StyledLine(kind, style, indent) == [kind |-> kind, style |-> style, indent |-> indent]

\* The line as it stands in the file: a line of code carries no comment
RenderLine(l) ==
    [k \in 1..l.indent |-> " "]
        \o (IF l.kind = "x" THEN LineBody(l.kind)
            ELSE l.style.open \o LineBody(l.kind) \o l.style.close)

RenderText(lines) == [k \in 1..Len(lines) |-> RenderLine(lines[k])]

\* The same logical lines as "# ..." comments without indentation
ReferenceText(lines) ==
    [k \in 1..Len(lines) |-> RenderLine(StyledLine(lines[k].kind, HashStyle, 0))]

\* Every way of writing one logical line
LineVariants ==
    {StyledLine(kind, style, indent) :
        kind \in LineKinds \ {"x"}, style \in CommentStyles, indent \in 0..MaxIndent}
        \cup {StyledLine("x", HashStyle, indent) : indent \in 0..MaxIndent}

\* Every way of writing the lines of a shape (a sequence of kinds) without
\* indentation, each line in a style of its own
StylingsOf(shape) ==
    {[k \in 1..Len(shape) |->
         StyledLine(shape[k], IF shape[k] = "x" THEN HashStyle ELSE st[k], 0)] :
        st \in [1..Len(shape) -> CommentStyles]}

BlockShapes ==
    {<<"if-change", "then-change", "b", "x", "end-change">>,
     <<"if-change", "then-change", "end-change-x", "b", "end-change">>,
     <<"if-change", "then-change", "if-change-x", "end-change">>}

StyledTexts == SeqsUpTo(LineVariants, 2) \cup UNION {StylingsOf(shape) : shape \in BlockShapes}

\* lines is not a field of the program: it keeps the logical lines the text
\* was written from
InitStyles ==
    /\ is_git_diff = TRUE
    /\ patch_set = <<>>
    /\ fs = [p \in Paths |-> MissingFile]
    /\ pc = "idle"
    /\ diffs_by_post_diff_path = EmptyMap
    /\ search = <<>>
    /\ ret = EmptyMap
    /\ modified_blocks_by_path = EmptyMap
    /\ diagnostics = <<>>
    /\ stdout = <<>>
    /\ read_log = <<>>
    /\ touch = [at |-> "idle"]
    /\ first_run = None
    /\ display = [at |-> "idle"]
    /\ \E lines \in StyledTexts :
           parser = [at |-> "lines", p |-> ParserNew(<<"a">>, RenderText(lines)), i |-> 0,
                     result |-> None, tags |-> <<"NoOp">>, lines |-> lines]

SpecStyles == InitStyles /\ [][NextParse]_vars

(***************************************************************************)
(* The Display of a position and of a diagnostic at a block, over the      *)
(* values of their fields (diagnostic.rs 11-25, 40-53).                    *)
(***************************************************************************)
\* The last line number (0-indexed) a displayed position or block holds
MaxDisplayLine == 5

DisplayPaths == {<<"a">>, <<"b">>}

\* The values of an Option over S
OptionOf(S) == {None} \cup {Some(x) : x \in S}

\* A block of the file at path, of lines i..e, its last line an inline
\* then-change naming target
DisplayedBlock(path, target, i, e) ==
    [key |-> BlockKey(path), then_change |-> <<<<e, BlockKey(target)>>>>,
     if_change_lineno |-> i, then_change_lineno |-> e, end_change_lineno |-> e]

\* write!(f, ...) of DiagnosticPosition { path, start_line, end_line }
DisplayPosition ==
    /\ display.at = "position"
    /\ display' = [display EXCEPT
                      !.out = Some(DiagnosticPositionFmt(display.path, display.start_line,
                                                         display.end_line)),
                      !.at = "done"]
    /\ UNCHANGED <<inputs, touch, parser, first_run, pc, diffs_by_post_diff_path, search, ret,
                   modified_blocks_by_path, diagnostics, stdout, read_log>>

\* println!("{}", diagnostic) of the diagnostic "expected change here due to
\* change in <ictc_block>" at the block found in the target file
DisplayDiagnostic ==
    /\ display.at = "diagnostic"
    /\ display' = [display EXCEPT
                      !.out = Some(DiagnosticFmt(
                                  ExpectedChangeDiagnostic(display.found.key.path,
                                                           Some(content_range(display.found)),
                                                           display.ictc_block))),
                      !.at = "done"]
    /\ UNCHANGED <<inputs, touch, parser, first_run, pc, diffs_by_post_diff_path, search, ret,
                   modified_blocks_by_path, diagnostics, stdout, read_log>>

InitDisplay ==
    /\ is_git_diff = TRUE
    /\ patch_set = <<>>
    /\ fs = [p \in Paths |-> MissingFile]
    /\ pc = "idle"
    /\ diffs_by_post_diff_path = EmptyMap
    /\ search = <<>>
    /\ ret = EmptyMap
    /\ modified_blocks_by_path = EmptyMap
    /\ diagnostics = <<>>
    /\ stdout = <<>>
    /\ read_log = <<>>
    /\ touch = [at |-> "idle"]
    /\ parser = [at |-> "idle"]
    /\ first_run = None
    /\ \/ \E path \in DisplayPaths :
          \E start_line \in OptionOf(0..MaxDisplayLine) :
          \E end_line \in OptionOf(0..(MaxDisplayLine + 1)) :
              display = [at |-> "position", of |-> "position", path |-> path,
                         start_line |-> start_line, end_line |-> end_line, out |-> None]
       \/ \E i \in 0..MaxDisplayLine, j \in 0..MaxDisplayLine :
          \E e \in (i + 1)..MaxDisplayLine, f \in (j + 1)..MaxDisplayLine :
              display = [at |-> "diagnostic", of |-> "diagnostic",
                         ictc_block |-> DisplayedBlock(<<"a">>, <<"b">>, i, e),
                         found |-> DisplayedBlock(<<"b">>, <<"a">>, j, f), out |-> None]

NextDisplay ==
    \/ DisplayPosition
    \/ DisplayDiagnostic

SpecDisplay == InitDisplay /\ [][NextDisplay]_vars

(***************************************************************************)
(* The terms of the claims about a run, read off the inputs and the        *)
(* output.                                                                 *)
(***************************************************************************)
\* The post-diff paths of the diff read from stdin
DiffPaths ==
    {FilterMapPatchedFile(is_git_diff, patch_set[k]).entry[1].key :
        k \in {j \in 1..Len(patch_set) :
                  IsSome(FilterMapPatchedFile(is_git_diff, patch_set[j]).entry)}}

\* Whether the file at a path can be read and parses without error
WellFormed(path) == Readable(path) /\ from_str(path, Content(path)).ok

\* The blocks written in the file at a path, as the parser returns them
BlocksOf(path) == IF WellFormed(path) THEN from_str(path, Content(path)).blocks ELSE <<>>

\* Whether a block names the file at path t among its then-change targets
Lists(block, t) == \E e \in 1..Len(block.then_change) : block.then_change[e][2].path = t

\* The number of then-change entries of a block that name t
EntriesNaming(block, t) ==
    Cardinality({e \in 1..Len(block.then_change) : block.then_change[e][2].path = t})

\* Whether the run marked the block touched
Touched(block) ==
    /\ block.key.path \in DOMAIN modified_blocks_by_path
    /\ \E k \in 1..Len(modified_blocks_by_path[block.key.path]) :
           modified_blocks_by_path[block.key.path][k].if_change_lineno = block.if_change_lineno

\* The blocks written in each file of the universe
ParsedFiles == [path \in Paths |-> BlocksOf(path)]

\* Whether some touched block of the file at t names the file at s
TouchedBlockLists(files, t, s) ==
    \E k \in 1..Len(files[t]) : Touched(files[t][k]) /\ Lists(files[t][k], s)

\* Whether some block of the file at t names the file at s
SomeBlockLists(files, t, s) == \E k \in 1..Len(files[t]) : Lists(files[t][k], s)

ExpectedKinds ==
    {"expected an if-change-then-change in this file that matches ",
     "expected change here due to change in "}

\* The path a printed position starts with
PositionPath(position) ==
    IF Find(position, ":", 1) = 0
    THEN position
    ELSE SubSeq(position, 1, Find(position, ":", 1) - 1)

\* "path:I-E", I and E the 1-based numbers of the if-change line and of the
\* end-change line of a block: its content range as a diagnostic shows it
PrintedRange(block) ==
    block.key.path \o <<":">> \o Digits(block.if_change_lineno + 1)
                   \o <<"-">> \o Digits(block.end_change_lineno + 1)

\* The line "<position> - expected change here due to change in <block>"
ExpectedChangeLine(position, block) ==
    [position |-> position,
     message |-> [kind |-> "expected change here due to change in ",
                  arg |-> PrintedRange(block)]]

\* The line "<t> - expected an if-change-then-change in this file that matches <block>"
ExpectedAnnotationLine(t, block) ==
    [position |-> t,
     message |-> [kind |-> "expected an if-change-then-change in this file that matches ",
                  arg |-> PrintedRange(block)]]

\* The number of printed lines equal to out_line
Count(out_line) == Cardinality({k \in 1..Len(stdout) : stdout[k] = out_line})

\* Whether a printed line is about the obligation of block to the file at t:
\* an "expected ..." diagnostic at t that names the block's position
AboutObligation(out_line, block, t) ==
    /\ out_line.message.kind \in ExpectedKinds
    /\ out_line.message.arg = PrintedRange(block)
    /\ PositionPath(out_line.position) = t

\* The touched blocks that name the file at t
TouchedObligations(files, t) ==
    {files[sk[1]][sk[2]] :
        sk \in {xy \in Paths \X (1..2) :
                   /\ xy[2] <= Len(files[xy[1]])
                   /\ Touched(files[xy[1]][xy[2]])
                   /\ Lists(files[xy[1]][xy[2]], t)}}

\* C1: when a touched block of file A names file B and a touched block of B
\* names A, no line about the obligation A -> B or B -> A is printed.
C1_SymmetricSatisfaction ==
    pc = "done" =>
        \A files \in {ParsedFiles} :
            \A t \in Paths : \A block \in TouchedObligations(files, t) :
                TouchedBlockLists(files, t, block.key.path) =>
                    \A k \in 1..Len(stdout) : ~AboutObligation(stdout[k], block, t)

\* A run where two different files hold touched blocks that name each other
C1_Witness ==
    /\ pc = "done"
    /\ \E files \in {ParsedFiles} :
           \E t \in Paths : \E block \in TouchedObligations(files, t) :
               block.key.path # t /\ TouchedBlockLists(files, t, block.key.path)

\* The first block of the file at t (file order) that names the file at s
FirstBlockListing(files, t, s) ==
    files[t][CHOOSE k \in 1..Len(files[t]) :
                /\ Lists(files[t][k], s)
                /\ \A j \in 1..(k - 1) : ~Lists(files[t][j], s)]

\* The line "expected change here" that a block owes at the first block of
\* the file at t that names the block's file
ExpectedChangeAtFirst(files, t, block) ==
    ExpectedChangeLine(PrintedRange(FirstBlockListing(files, t, block.key.path)), block)

\* C2: when a touched block B names file T, T holds a block that names B's
\* file and no touched block of T names it, the obligation yields exactly one
\* diagnostic, once per then-change entry of B naming T: "expected change here
\* due to change in <B>" at T, at the content range of the first block of T
\* that names B's file; no other line about the obligation is printed.
C2_ExpectedChangeAtFirstMatchingBlock ==
    pc = "done" =>
        \A files \in {ParsedFiles} :
            \A t \in Paths : \A block \in TouchedObligations(files, t) :
                (SomeBlockLists(files, t, block.key.path)
                     /\ ~TouchedBlockLists(files, t, block.key.path))
                    => \A expected \in {ExpectedChangeAtFirst(files, t, block)} :
                           /\ Count(expected) = EntriesNaming(block, t)
                           /\ \A k \in 1..Len(stdout) :
                                  AboutObligation(stdout[k], block, t)
                                      => stdout[k] = expected

\* A run where the target is in the diff, changed outside its blocks, and the
\* block that names the touched block's file is not the first block of the
\* target
C2_Witness ==
    /\ pc = "done"
    /\ \E files \in {ParsedFiles} :
           \E t \in Paths : \E block \in TouchedObligations(files, t) :
               /\ SomeBlockLists(files, t, block.key.path)
               /\ ~TouchedBlockLists(files, t, block.key.path)
               /\ t \in DiffPaths
               /\ Len(files[t]) > 1
               /\ ~Lists(files[t][1], block.key.path)

\* Whether the then_change of a block is the one entry naming t
ListsOnly(block, t) == Len(block.then_change) = 1 /\ Lists(block, t)

\* File a holds two blocks naming b1 and b2, b1 and b2 hold one block naming
\* a, and the first block of a and the block of b2 are the touched blocks
TwoBlocksCase(files, a, b1, b2) ==
    /\ a # b1 /\ a # b2 /\ b1 # b2
    /\ Len(files[a]) = 2 /\ ListsOnly(files[a][1], b1) /\ ListsOnly(files[a][2], b2)
    /\ Len(files[b1]) = 1 /\ ListsOnly(files[b1][1], a)
    /\ Len(files[b2]) = 1 /\ ListsOnly(files[b2][1], a)
    /\ Touched(files[a][1]) /\ ~Touched(files[a][2])
    /\ ~Touched(files[b1][1]) /\ Touched(files[b2][1])

\* C5: obligations are resolved per block.  In the two-blocks case exactly two
\* lines are printed: "expected change here" at the second block of A due to
\* the block of B2, and at the block of B1 due to the first block of A.  And
\* whenever no touched block of the target names the file of a touched block,
\* whatever other blocks of the target are touched, a line about the
\* obligation is printed.
C5_ResolvedPerBlock ==
    pc = "done" =>
        \A files \in {ParsedFiles} :
            /\ \A a \in Paths, b1 \in Paths, b2 \in Paths :
                   TwoBlocksCase(files, a, b1, b2) =>
                       /\ Len(stdout) = 2
                       /\ Count(ExpectedChangeLine(PrintedRange(files[a][2]),
                                                   files[b2][1])) = 1
                       /\ Count(ExpectedChangeLine(PrintedRange(files[b1][1]),
                                                   files[a][1])) = 1
            /\ \A t \in Paths : \A block \in TouchedObligations(files, t) :
                   ((t \in DiffPaths \/ Exists(t))
                        /\ ~TouchedBlockLists(files, t, block.key.path))
                       => \E k \in 1..Len(stdout) : AboutObligation(stdout[k], block, t)

\* A run of the two-blocks case
C5_Witness ==
    /\ pc = "done"
    /\ \E files \in {ParsedFiles} :
           \E a \in Paths, b1 \in Paths, b2 \in Paths : TwoBlocksCase(files, a, b1, b2)

\* The two lines at the file at t, without a line range, about the obligation
\* of block: one "expected an if-change-then-change ...", one "expected change
\* here ...", once per then-change entry of the block naming t, and no other
\* line about the obligation
BothLinesWithoutRange(t, block) ==
    /\ Count(ExpectedAnnotationLine(t, block)) = EntriesNaming(block, t)
    /\ Count(ExpectedChangeLine(t, block)) = EntriesNaming(block, t)
    /\ \A k \in 1..Len(stdout) :
           AboutObligation(stdout[k], block, t)
               => stdout[k] \in {ExpectedAnnotationLine(t, block), ExpectedChangeLine(t, block)}

\* C6 as stated: whenever a touched block names file d, and d, readable and
\* parsable, holds no block at all, exactly two lines are printed for it at d
\* without a line range: "expected an if-change-then-change in this file that
\* matches <block>" and "expected change here due to change in <block>".
C6_TwoDiagnosticsWhenNoBlock ==
    pc = "done" =>
        \A files \in {ParsedFiles} :
            \A d \in Paths : \A block \in TouchedObligations(files, d) :
                (WellFormed(d) /\ files[d] = <<>>) => BothLinesWithoutRange(d, block)

\* C6, amended: the same when d is not a file of the diff.
C6_TwoDiagnosticsWhenNoBlockOutsideDiff ==
    pc = "done" =>
        \A files \in {ParsedFiles} :
            \A d \in Paths : \A block \in TouchedObligations(files, d) :
                (WellFormed(d) /\ files[d] = <<>> /\ d \notin DiffPaths)
                    => BothLinesWithoutRange(d, block)

\* A run where a touched block names a file without blocks outside the diff
C6_Witness ==
    /\ pc = "done"
    /\ \E files \in {ParsedFiles} :
           \E d \in Paths : \E block \in TouchedObligations(files, d) :
               WellFormed(d) /\ files[d] = <<>> /\ d \notin DiffPaths

\* C7: when a touched block B names file T, T is a file of the diff and no
\* block of T names B's file, the obligation yields exactly one diagnostic,
\* once per then-change entry of B naming T: "expected an
\* if-change-then-change in this file that matches <B>" at T without a line
\* range; no "expected change here" line is printed for it.
C7_AnnotationDiagnosticOnlyInDiff ==
    pc = "done" =>
        \A files \in {ParsedFiles} :
            \A t \in Paths : \A block \in TouchedObligations(files, t) :
                (t \in DiffPaths /\ ~SomeBlockLists(files, t, block.key.path))
                    => /\ Count(ExpectedAnnotationLine(t, block)) = EntriesNaming(block, t)
                       /\ \A k \in 1..Len(stdout) :
                              AboutObligation(stdout[k], block, t)
                                  => stdout[k] = ExpectedAnnotationLine(t, block)

\* A run where the target is a changed file with a touched block that names
\* another file
C7_Witness ==
    /\ pc = "done"
    /\ \E files \in {ParsedFiles} :
           \E t \in Paths : \E block \in TouchedObligations(files, t) :
               /\ t \in DiffPaths
               /\ ~SomeBlockLists(files, t, block.key.path)
               /\ \E k \in 1..Len(files[t]) : Touched(files[t][k])

\* The then-change entries of the files read: <<block, line of the entry,
\* path named>>
References(files) ==
    {<<files[ske[1]][ske[2]],
       files[ske[1]][ske[2]].then_change[ske[3]][1],
       files[ske[1]][ske[2]].then_change[ske[3]][2].path>> :
        ske \in {xyz \in Paths \X (1..2) \X (1..(MaxTargets + 1)) :
                    /\ \E r \in 1..Len(read_log) : read_log[r] = xyz[1]
                    /\ xyz[2] <= Len(files[xyz[1]])
                    /\ xyz[3] <= Len(files[xyz[1]][xyz[2]].then_change)}}

\* Those that name the file they are written in
SelfReferences(files) == {ref \in References(files) : ref[3] = ref[1].key.path}

\* Whether a printed line is a "then-change references file ..." diagnostic
\* at the given line of the file of the block, about the file at t
AboutReference(out_line, block, lineno, t) ==
    /\ out_line.position = block.key.path \o <<":">> \o Digits(lineno + 1)
    /\ out_line.message.kind \in
           {"then-change references file that does not exist: '",
            "then-change references file that could not be read: '"}
    /\ out_line.message.arg = t \o <<"'">>

\* C8: a then-change entry that names the block's own file causes no
\* diagnostic: none about the file named, none about a missing annotation or
\* an expected change, in or outside the diff, the block touched or not.
C8_SelfReferenceSilent ==
    pc = "done" =>
        \A files \in {ParsedFiles} : \A ref \in SelfReferences(files) :
            \A k \in 1..Len(stdout) :
                /\ ~AboutReference(stdout[k], ref[1], ref[2], ref[1].key.path)
                /\ ~AboutObligation(stdout[k], ref[1], ref[1].key.path)

\* A run with a touched block that names its own file, and a file outside the
\* diff that was read and holds a block naming its own file
C8_Witness ==
    /\ pc = "done"
    /\ \E files \in {ParsedFiles} :
           /\ \E ref \in SelfReferences(files) : Touched(ref[1])
           /\ \E ref \in SelfReferences(files) : ref[1].key.path \notin DiffPaths

\* The line "<file>:<line> - then-change references file that does not exist: '<t>'"
ThenChangeMissingLine(block, lineno, t) ==
    [position |-> block.key.path \o <<":">> \o Digits(lineno + 1),
     message |-> [kind |-> "then-change references file that does not exist: '",
                  arg |-> t \o <<"'">>]]

\* C9: a then-change entry naming a file that does not exist yields exactly
\* one line "then-change references file that does not exist: '<path>'" at the
\* declaring file and the line of the entry, and no "expected ..." line is
\* printed for that target, the declaring block touched or not.  Stated for
\* the entries of the files read that name a file the diff does not name.
C9_MissingTargetOneDiagnostic ==
    pc = "done" =>
        \A files \in {ParsedFiles} : \A ref \in References(files) :
            (~Exists(ref[3]) /\ ref[3] \notin DiffPaths) =>
                /\ Count(ThenChangeMissingLine(ref[1], ref[2], ref[3])) = 1
                /\ \A k \in 1..Len(stdout) : ~AboutObligation(stdout[k], ref[1], ref[3])

\* The files named by the blocks of the files of R that parse, themselves and
\* missing files left out
NamedBy(files, R) ==
    {t \in Paths : \E p \in R : p # t /\ Exists(t) /\ SomeBlockLists(files, p, t)}

\* The files of the diff and the files named directly by their blocks
OneHop(files) == DiffPaths \cup NamedBy(files, DiffPaths)

\* The files of the diff and the files their blocks lead to, over any number
\* of then-change references
RECURSIVE Reachable(_, _, _)
Reachable(files, R, n) ==
    IF n = 0 THEN R ELSE Reachable(files, R \cup NamedBy(files, R), n - 1)

ReadPaths == {read_log[r] : r \in 1..Len(read_log)}

\* C10 as stated: the index holds only the diff's files and the files named
\* directly by a block of a diff file; a file named only by a block of a file
\* outside the diff is never read, parsed or indexed, and no line is printed
\* at it.
C10_OneHopDiscovery ==
    pc = "done" =>
        \A files \in {ParsedFiles} :
            /\ ReadPaths \subseteq OneHop(files)
            /\ DOMAIN ret \subseteq OneHop(files)
            /\ \A k \in 1..Len(stdout) :
                   PositionPath(stdout[k].position) \in OneHop(files) \cup {<<"stdin">>}

\* C10, amended: the files read are exactly the diff's files and the files
\* reachable from them over then-change references, each from a file that
\* parses to an existing file other than itself; the index holds exactly those
\* of them that can be read and parse, and every line printed is at one of
\* them or at "stdin".
C10_TransitiveDiscovery ==
    pc = "done" =>
        \A files \in {ParsedFiles} :
            \A reach \in {Reachable(files, DiffPaths, Cardinality(Paths))} :
                /\ ReadPaths = reach
                /\ DOMAIN ret = {p \in reach : WellFormed(p)}
                /\ \A k \in 1..Len(stdout) :
                       PositionPath(stdout[k].position) \in reach \cup {<<"stdin">>}

\* A run that indexed a file named only by a block of a file outside the diff
C10_Witness ==
    /\ pc = "done"
    /\ \E p \in DOMAIN ret : p \notin OneHop(ParsedFiles)

(***************************************************************************)
(* The touched blocks, against the lines of the diff.                      *)
(***************************************************************************)
\* Whether an added or removed line of a hunk lies within lines
\* if_change_lineno..end_change_lineno of the new file: an added line is the
\* line it became, a removed line lay between the lines now above and below it
LineInContentRange(block, line) ==
    IF is_removed(line)
    THEN block.if_change_lineno < line.lines_above
             /\ line.lines_above <= block.end_change_lineno
    ELSE block.if_change_lineno <= line.lines_above
             /\ line.lines_above <= block.end_change_lineno

ChangedLineInContentRange(block, hunks) ==
    \E h \in 1..Len(hunks) : \E l \in 1..Len(hunks[h]) :
        /\ is_added(hunks[h][l]) \/ is_removed(hunks[h][l])
        /\ LineInContentRange(block, hunks[h][l])

\* C3: a block is marked touched if and only if an added or removed line of
\* the hunks lies within its content range, wherever the line sits in its hunk.
C3_TouchedIffChangedLineInContentRange ==
    touch.at = "done" =>
        ((touch.modified_blocks # <<>>)
             <=> ChangedLineInContentRange(touch.ictc_block, touch.hunks))

\* C4: a block none of whose lines is added or removed, every added or removed
\* line of the diff lying outside its content range, is never marked touched.
C4_ContextOnlyNeverTouched ==
    (touch.at = "done" /\ ~ChangedLineInContentRange(touch.ictc_block, touch.hunks))
        => touch.modified_blocks = <<>>

(***************************************************************************)
(* The parser, line by line.                                               *)
(***************************************************************************)
\* The blocks built so far and, once parse has returned, the blocks returned
ParserBlocks ==
    IF parser.at = "idle"
    THEN <<>>
    ELSE parser.p.block_nodes \o (IF parser.at = "done" THEN parser.result.blocks ELSE <<>>)

\* C11: every block the parser emits has if_change_line <= then_change_line
\* <= end_change_line, and its content range holds at least one line.
C11_BlockLinesOrdered ==
    \A k \in 1..Len(ParserBlocks) :
        /\ ParserBlocks[k].if_change_lineno <= ParserBlocks[k].then_change_lineno
        /\ ParserBlocks[k].then_change_lineno <= ParserBlocks[k].end_change_lineno
        /\ content_range(ParserBlocks[k]).start < content_range(ParserBlocks[k]).end

\* A parse that returned a block closed by an end-change after its then-change
\* line
C11_Witness ==
    /\ parser.at = "done"
    /\ \E k \in 1..Len(parser.result.blocks) :
           parser.result.blocks[k].then_change_lineno < parser.result.blocks[k].end_change_lineno

\* The messages of the structural errors of a line: a stray then-change or
\* end-change, a nested if-change, a marker inside a then-change block
StructuralErrorKinds ==
    {"then-change must follow an if-change",
     "end-change must follow an if-change and then-change",
     "if-change nesting is not allowed"}

\* The step over one line that records a structural error for it
StructuralErrorRecorded ==
    /\ parser.at = "lines"
    /\ parser'.at = "lines"
    /\ Len(parser'.p.errors) > Len(parser.p.errors)
    /\ parser'.p.errors[Len(parser'.p.errors)].message.kind \in StructuralErrorKinds

CurrentLine == parser.p.input_content[parser.i + 1]

\* The lines of a text that are not source lines, in order
RECURSIVE Markers(_)
Markers(text) ==
    IF text = <<>>
    THEN <<>>
    ELSE (IF Head(text) = SrcLine THEN <<>> ELSE <<Head(text)>>) \o Markers(Tail(text))

\* The 0-indexed number of the n-th line of a text that is not a source line
RECURSIVE MarkerLine(_, _, _)
MarkerLine(text, n, k) ==
    IF text[k + 1] = SrcLine
    THEN MarkerLine(text, n, k + 1)
    ELSE IF n = 1 THEN k ELSE MarkerLine(text, n - 1, k + 1)

\* The error the parser records at a line, as it is returned
ParseError(lineno, kind) ==
    [path |-> <<"a">>, start_line |-> Some(lineno), end_line |-> None,
     message |-> [kind |-> kind, arg |-> <<>>]]

OpenMarkerLine ==
    CHOOSE j \in 0..(Len(parser.tags) - 2) :
        /\ parser.tags[j + 1] # parser.tags[Len(parser.tags)]
        /\ \A m \in (j + 2)..Len(parser.tags) : parser.tags[m] = parser.tags[Len(parser.tags)]

\* The step at the end of the input with a block left open
EndOfInputNotIdle ==
    /\ parser.at = "lines"
    /\ parser'.at = "eof"
    /\ parser.p.parse_state.tag # "NoOp"

C15_EofDiagnosticPointsAtMarker ==
    [][EndOfInputNotIdle =>
          /\ Len(parser'.p.errors) = Len(parser.p.errors) + 1
          /\ parser'.p.errors[Len(parser'.p.errors)].start_line = Some(OpenMarkerLine)
          /\ parser.p.input_content[OpenMarkerLine + 1] =
                 (IF parser.p.parse_state.tag = "IfChange" THEN IfLine ELSE ThenBlockLine)]_vars

\* A parse that returned after the input ended inside a then-change block
\* whose then-change line is not the last line
C15_Witness ==
    /\ parser.at = "done"
    /\ parser.p.parse_state.tag = "ThenChange"
    /\ OpenMarkerLine < Len(parser.p.input_content) - 1

\* C16: when a file holds complete blocks and a structural error, the result
\* of the parse holds the complete blocks together with the diagnostics.
C16_BlocksKeptWithDiagnostics ==
    (parser.at = "done" /\ parser.p.errors # <<>> /\ parser.p.block_nodes # <<>>)
        => /\ parser.result.blocks = parser.p.block_nodes
           /\ parser.result.diagnostics = parser.p.errors

\* The 0-indexed lines read inside a then-change block that hold no path: the
\* targets that are empty after trimming
EmptyTargetLines ==
    {k \in 0..(parser.i - 1) :
        parser.tags[k + 1] = "ThenChange" /\ parser.p.input_content[k + 1] = EmptyTargetLine}

\* The then_change lists the parser holds: of the blocks built and of the
\* block being collected
ThenChangeLists ==
    [k \in 1..Len(parser.p.block_nodes) |-> parser.p.block_nodes[k].then_change]
        \o (IF IsSome(parser.p.parse_state.builder.then_change)
            THEN <<Unwrap(parser.p.parse_state.builder.then_change)>>
            ELSE <<>>)

\* C17: a target that is empty after trimming is never added to then_change,
\* and yields one diagnostic "then-change does not reference a valid path" at
\* its line.
C17_EmptyTargetRejected ==
    parser.at \in {"lines", "eof", "done"} =>
        /\ \A k \in 1..Len(ThenChangeLists) : \A e \in 1..Len(ThenChangeLists[k]) :
               ThenChangeLists[k][e][2].path # <<>>
        /\ \A k \in EmptyTargetLines :
               Cardinality({e \in 1..Len(parser.p.errors) :
                               parser.p.errors[e] =
                                   ParseError(k, "then-change does not reference a valid path")})
                   = 1

\* C20: a then-change block start with no open if-change, followed by target
\* lines and an end-change, yields exactly one diagnostic, at the then-change
\* line.
C20_OrphanedThenChangeBlockOneDiagnostic ==
    (/\ parser.at = "done"
     /\ Markers(parser.p.input_content) = <<ThenBlockLine, EndLine>>
     /\ MarkerLine(parser.p.input_content, 2, 0) > MarkerLine(parser.p.input_content, 1, 0) + 1)
        => /\ Len(parser.result.diagnostics) = 1
           /\ parser.result.diagnostics[1].start_line
                  = Some(MarkerLine(parser.p.input_content, 1, 0))

\* The files the run read whose parse recorded structural errors
MalformedRead == {p \in ReadPaths : Readable(p) /\ ~WellFormed(p)}

\* C19: each structural error of a file the run read is printed exactly once,
\* however many then-change references lead to the file.
C19_StructuralErrorPrintedOnce ==
    pc = "done" =>
        \A p \in MalformedRead :
            \A ds \in {from_str(p, Content(p)).diagnostics} :
                \A k \in 1..Len(ds) : Count(DiagnosticFmt(ds[k])) = 1

\* C18: the second of two runs on the same diff and the same files prints
\* the lines the first run printed, in the same order.
C18_SecondRunPrintsSameLines ==
    (pc = "done" /\ IsSome(first_run)) => stdout = Unwrap(first_run)

(***************************************************************************)
(* The printed lines: their order and their positions.                     *)
(***************************************************************************)
\* The number a text of digits stands for, up to its first token that is
\* not a digit
RECURSIVE DigitsValue(_, _)
DigitsValue(s, acc) ==
    IF s = <<>> \/ \A n \in 0..9 : Digits(n) # <<s[1]>>
    THEN acc
    ELSE DigitsValue(Tail(s), acc * 10 + (CHOOSE n \in 0..9 : Digits(n) = <<s[1]>>))

\* The start line a printed position shows, None when it shows the bare path
PrintedStartLine(position) ==
    IF Find(position, ":", 1) = 0
    THEN None
    ELSE Some(DigitsValue(SubSeq(position, Find(position, ":", 1) + 1, Len(position)), 0))

\* The order of two printed lines by (path, start line with absent before
\* present, message): -1, 0 or 1
OutputLineCmp(l1, l2) ==
    LET c1 == StrCmp(PositionPath(l1.position), PositionPath(l2.position))
        c2 == OptCmp(PrintedStartLine(l1.position), PrintedStartLine(l2.position))
    IN  IF c1 # 0 THEN c1
        ELSE IF c2 # 0 THEN c2
        ELSE MessageCmp(l1.message, l2.message)

\* C21: the lines are printed sorted by (path, start line with absent before
\* present, message): of two consecutive lines the earlier is less than or
\* equal to the later.
C21_OutputSorted ==
    pc = "done" =>
        \A k \in 1..(Len(stdout) - 1) : OutputLineCmp(stdout[k], stdout[k + 1]) <= 0

\* A run that printed, at one path, a line without a start line and then a
\* line with one, and lines at another path
C21_Witness ==
    /\ pc = "done"
    /\ \E k \in 1..(Len(stdout) - 1) :
           /\ PositionPath(stdout[k].position) = PositionPath(stdout[k + 1].position)
           /\ PrintedStartLine(stdout[k].position) = None
           /\ PrintedStartLine(stdout[k + 1].position) # None
    /\ \E k \in 1..Len(stdout) :
           PositionPath(stdout[k].position) # PositionPath(stdout[1].position)

C23_BlockDisplayedInclusive ==
    (display.at = "done" /\ display.of = "diagnostic") =>
        /\ Unwrap(display.out).position =
               display.found.key.path \o <<":">>
                   \o Digits(display.found.if_change_lineno + 1) \o <<"-">>
                   \o Digits(display.found.end_change_lineno + 1)
        /\ Unwrap(display.out).message.arg =
               display.ictc_block.key.path \o <<":">>
                   \o Digits(display.ictc_block.if_change_lineno + 1) \o <<"-">>
                   \o Digits(display.ictc_block.end_change_lineno + 1)

\* A diagnostic displayed at a block of several lines about a block of
\* other lines
C23_Witness ==
    /\ display.at = "done"
    /\ display.of = "diagnostic"
    /\ display.found.end_change_lineno > display.found.if_change_lineno + 1
    /\ display.found.if_change_lineno # display.ictc_block.if_change_lineno
    /\ display.found.end_change_lineno # display.ictc_block.end_change_lineno

\* Whether the blocks of two different files name each other's file
ReferenceCycle(files) ==
    \E p \in Paths, q \in Paths :
        p # q /\ SomeBlockLists(files, p, q) /\ SomeBlockLists(files, q, p)

\* The then-change entries of the file at p that the search would queue
\* when reading p with the index holding the files of R: those naming a file
\* outside the diff, other than p, that exists and is not in R
QueuedBy(files, p, R) ==
    {ke \in (1..2) \X (1..(MaxTargets + 1)) :
        /\ ke[1] <= Len(files[p])
        /\ ke[2] <= Len(files[p][ke[1]].then_change)
        /\ \E t \in {files[p][ke[1]].then_change[ke[2]][2].path} :
               t \notin DiffPaths /\ t # p /\ Exists(t) /\ t \notin R}

RECURSIVE SumOver(_, _, _, _)
RECURSIVE ReadsOwed(_, _, _)
\* The most reads one queue entry for p leads to, itself included, when the
\* index holds the files of R
ReadsOwed(files, p, R) ==
    1 + SumOver(files, p, R, QueuedBy(files, p, R))

SumOver(files, p, R, entries) ==
    IF entries = {}
    THEN 0
    ELSE LET ke == CHOOSE x \in entries : TRUE
         IN  ReadsOwed(files, files[p][ke[1]].then_change[ke[2]][2].path, R \cup {p})
                 + SumOver(files, p, R, entries \ {ke})

\* The reads the queue still owes: a natural number
RECURSIVE QueueWeight(_, _, _)
QueueWeight(files, queue, R) ==
    IF queue = <<>>
    THEN 0
    ELSE ReadsOwed(files, Head(queue).path, R) + QueueWeight(files, Tail(queue), R)

\* Whether a step of the run can be taken: the guard of one of its steps holds
RunCanStep ==
    \/ pc = "start"
    \/ pc = "search" /\ search # <<>>
    \/ pc = "search" /\ search = <<>>
    \/ pc = "correlate"
    \/ pc = "sort"

\* C24: whatever the diff and the files, then-change references forming
\* cycles and files referenced several times included, the run is never
\* stuck before it completes, every iteration of the search loop lowers the
\* number of reads the queue still owes, and a completed run has emptied the
\* queue.
C24_RunCompletes ==
    /\ [](pc = "done" \/ RunCanStep)
    /\ [](pc = "done" => search = <<>>)
    /\ [][(pc = "search" /\ search # <<>>)
             => \A files \in {ParsedFiles} :
                    /\ pc' = "search"
                    /\ QueueWeight(files, search', DOMAIN ret')
                           < QueueWeight(files, search, DOMAIN ret)]_vars

\* A completed run over files that name each other, in which a file was
\* taken from the queue more than once
C24_Witness ==
    /\ pc = "done"
    /\ search = <<>>
    /\ ReferenceCycle(ParsedFiles)
    /\ \E r \in 1..Len(read_log) : \E t \in 1..(r - 1) : read_log[t] = read_log[r]

\* The files of the diff that can be read and do not parse
MalformedInDiff == {t \in DiffPaths : Readable(t) /\ ~WellFormed(t)}

\* C25: when a touched block names a file of the diff that does not parse,
\* at least one line about that obligation is printed at the path of the
\* file.
C25_MalformedTargetInDiffWarned ==
    pc = "done" =>
        \A files \in {ParsedFiles} :
            \A t \in MalformedInDiff : \A block \in TouchedObligations(files, t) :
                \E k \in 1..Len(stdout) : AboutObligation(stdout[k], block, t)

\* A run where a touched block names a file of the diff that does not parse
C25_Witness ==
    /\ pc = "done"
    /\ \E files \in {ParsedFiles} :
           \E t \in MalformedInDiff : TouchedObligations(files, t) # {}

(***************************************************************************)
(* The file pairs of the diff.                                             *)
(***************************************************************************)
\* Whether a pair of a git diff breaks the convention: a before path that is
\* neither a/... nor /dev/null, or an after path that is neither b/... nor
\* /dev/null
ConventionBroken(pair) ==
    \/ ~(starts_with(pair.source_file, <<"a", "/">>) \/ pair.source_file = DevNull)
    \/ ~(starts_with(pair.target_file, <<"b", "/">>) \/ pair.target_file = DevNull)

\* A path without its a/ or b/ prefix
Unprefixed(path) ==
    IF starts_with(path, <<"a", "/">>) \/ starts_with(path, <<"b", "/">>)
    THEN SubSeq(path, 3, Len(path))
    ELSE path

\* The file on disk a pair is about
PairFile(pair) ==
    IF pair.target_file # DevNull
    THEN Unprefixed(pair.target_file)
    ELSE Unprefixed(pair.source_file)

\* The line "stdin - invalid git diff: expected a/before.path -> b/after.path,
\* but got '<before>' -> '<after>'"
InvalidGitDiffLine(pair) ==
    [position |-> <<"stdin">>,
     message |-> [kind |-> "invalid git diff: expected a/before.path -> b/after.path, but got '",
                  arg |-> pair.source_file \o <<"'", " ", "-", ">", " ", "'">>
                              \o pair.target_file \o <<"'">>]]

\* The line "stdin - diff references file that does not exist: '<path>'"
DiffMissingLine(path) ==
    [position |-> <<"stdin">>,
     message |-> [kind |-> "diff references file that does not exist: '",
                  arg |-> path \o <<"'">>]]

\* Whether the run left a pair out of its working set: the pair is no entry
\* of the diff index, its file has no touched block, and its file was read
\* only if a block of another file read names it
PairExcluded(files, pair) ==
    /\ \A key \in DOMAIN diffs_by_post_diff_path : diffs_by_post_diff_path[key] # pair
    /\ PairFile(pair) \notin DOMAIN modified_blocks_by_path
    /\ PairFile(pair) \in ReadPaths
           => \E q \in ReadPaths \cap Paths :
                  q # PairFile(pair) /\ SomeBlockLists(files, q, PairFile(pair))

\* C26: in a git diff, a pair that breaks the a/... -> b/... convention
\* yields exactly one line, at "stdin" without a line number, and is left out
\* of the working set; every pair that keeps the convention and names an
\* after path is indexed and read.
C26_InvalidPairReportedAndExcluded ==
    (pc = "done" /\ is_git_diff) =>
        \A files \in {ParsedFiles} : \A k \in 1..Len(patch_set) :
            /\ ConventionBroken(patch_set[k])
                   => /\ Count(InvalidGitDiffLine(patch_set[k])) = 1
                      /\ Count(DiffMissingLine(PairFile(patch_set[k]))) = 0
                      /\ PairExcluded(files, patch_set[k])
            /\ (~ConventionBroken(patch_set[k]) /\ patch_set[k].target_file # DevNull)
                   => /\ PairFile(patch_set[k]) \in DOMAIN diffs_by_post_diff_path
                      /\ PairFile(patch_set[k]) \in ReadPaths
                      /\ Count(InvalidGitDiffLine(patch_set[k])) = 0

\* A run on a git diff of a pair that breaks the convention, about a file
\* with a block, and a pair that keeps it
C26_Witness ==
    /\ pc = "done"
    /\ is_git_diff
    /\ \E k \in 1..Len(patch_set), j \in 1..Len(patch_set) :
           /\ ConventionBroken(patch_set[k])
           /\ BlocksOf(PairFile(patch_set[k])) # <<>>
           /\ ~ConventionBroken(patch_set[j])
           /\ patch_set[j].target_file # DevNull

\* Whether a pair is the deletion of a file: its after path is /dev/null
\* (and, in a git diff, its before path keeps the convention)
Deletion(pair) ==
    /\ pair.target_file = DevNull
    /\ is_git_diff => ~ConventionBroken(pair)

\* C27: a pair whose after path is /dev/null, in a git diff and in a plain
\* diff, is left out of the working set and yields no line by itself; a diff
\* of deletions only reads no file and prints nothing.
C27_DeletionExcludedSilently ==
    pc = "done" =>
        \A files \in {ParsedFiles} :
            /\ \A k \in 1..Len(patch_set) :
                   Deletion(patch_set[k])
                       => /\ PairExcluded(files, patch_set[k])
                          /\ DevNull \notin DOMAIN diffs_by_post_diff_path
                          /\ DevNull \notin ReadPaths
                          /\ \A n \in 1..Len(stdout) :
                                 /\ stdout[n] # InvalidGitDiffLine(patch_set[k])
                                 /\ stdout[n] # DiffMissingLine(DevNull)
                                 /\ stdout[n] # DiffMissingLine(PairFile(patch_set[k]))
            /\ (\A k \in 1..Len(patch_set) : Deletion(patch_set[k]))
                   => stdout = <<>> /\ read_log = <<>>

\* A run on a plain diff of a deleted file and a changed file
C27_Witness ==
    /\ pc = "done"
    /\ ~is_git_diff
    /\ \E k \in 1..Len(patch_set), j \in 1..Len(patch_set) :
           /\ Deletion(patch_set[k])
           /\ patch_set[j].target_file # DevNull
           /\ patch_set[j].target_file \in ReadPaths

\* C28: a file of the diff that cannot be read yields exactly one line
\* "stdin - diff references file that does not exist: '<path>'", without a
\* line number, and every file of the diff is read all the same, the ones
\* that parse being indexed.
C28_UnreadableDiffPathReported ==
    pc = "done" =>
        \A p \in DiffPaths :
            /\ ~Readable(p) => Count(DiffMissingLine(p)) = 1
            /\ p \in ReadPaths
            /\ WellFormed(p) => p \in DOMAIN ret

\* A run whose diff names a file that cannot be read and, read after it, a
\* file that parses
C28_Witness ==
    /\ pc = "done"
    /\ \E i \in 1..Len(read_log) : \E j \in (i + 1)..Len(read_log) :
           /\ read_log[i] \in DiffPaths /\ ~Readable(read_log[i])
           /\ read_log[j] \in DiffPaths /\ WellFormed(read_log[j])

(***************************************************************************)
(* The then_change entries left in the index by graph discovery.           *)
(***************************************************************************)
\* Graph discovery is over: the queue was emptied and run() moved on
Discovered == pc \notin {"start", "search"}

\* C29 as stated: after graph discovery no block of the index keeps an entry
\* that names its own file or a file that does not exist, in the files of the
\* diff as in the others.
C29_NoSelfOrMissingEntryKept ==
    Discovered =>
        \A p \in DOMAIN ret : \A k \in 1..Len(ret[p]) :
            \A e \in 1..Len(ret[p][k].then_change) :
                /\ ret[p][k].then_change[e][2].path # p
                /\ Exists(ret[p][k].then_change[e][2].path)

\* The entries of then_change that the filter of the file at p keeps: the
\* ones naming a file of the diff, and the ones naming an existing file other
\* than p
EntriesKept(p, then_change) ==
    SelectSeq(then_change,
              LAMBDA entry : \/ entry[2].path \in DiffPaths
                             \/ entry[2].path # p /\ Exists(entry[2].path))

\* C29: after graph discovery the blocks of an indexed file are the blocks
\* parsed from it, each with the entries that name a file of the diff (its
\* own file and missing files included) or an existing file other than its
\* own, in order; a kept entry naming the block's own file yields no line.
C29_EntriesKeptByDiscovery ==
    Discovered =>
        \A p \in DOMAIN ret : \A blocks \in {BlocksOf(p)} :
            /\ Len(ret[p]) = Len(blocks)
            /\ \A k \in 1..Len(blocks) :
                   /\ ret[p][k] = [blocks[k] EXCEPT
                                      !.then_change = EntriesKept(p, blocks[k].then_change)]
                   /\ (pc = "done" /\ Lists(ret[p][k], p))
                          => \A n \in 1..Len(stdout) :
                                 ~AboutObligation(stdout[n], blocks[k], p)

\* A run that indexed a diff file with a touched block still naming its own
\* file, and a file outside the diff whose entry naming its own file was
\* removed
C29_Witness ==
    /\ pc = "done"
    /\ \E p \in DOMAIN ret : \E k \in 1..Len(ret[p]) :
           p \in DiffPaths /\ Lists(ret[p][k], p) /\ Touched(ret[p][k])
    /\ \E q \in DOMAIN ret : \E k \in 1..Len(ret[q]) :
           q \notin DiffPaths /\ Lists(BlocksOf(q)[k], q) /\ ~Lists(ret[q][k], q)

(***************************************************************************)
(* Texts made of well-formed blocks only.                                  *)
(***************************************************************************)
\* Whether the lines of text from line i on (1-indexed) continue well-formed
\* blocks, st telling where line i stands: "out" of any block, after an
\* "if"-change, at the "start" of a then-change block, or after a "target"
\* line of one.  A line that is no marker is allowed anywhere; in a
\* then-change block it is a target line, and the block holds at least one.
RECURSIVE BlocksWellFormedFrom(_, _, _)
BlocksWellFormedFrom(text, i, st) ==
    IF i > Len(text)
    THEN st = "out"
    ELSE CASE text[i] = IfLine -> st = "out" /\ BlocksWellFormedFrom(text, i + 1, "if")
           [] text[i] = ThenInlineLine(<<"b">>) ->
                  st = "if" /\ BlocksWellFormedFrom(text, i + 1, "out")
           [] text[i] = ThenBlockLine -> st = "if" /\ BlocksWellFormedFrom(text, i + 1, "start")
           [] text[i] = EndLine -> st = "target" /\ BlocksWellFormedFrom(text, i + 1, "out")
           [] OTHER -> BlocksWellFormedFrom(text, i + 1,
                                            IF st = "start" THEN "target" ELSE st)

OnlyWellFormedBlocks(text) == BlocksWellFormedFrom(text, 1, "out")

\* The 0-indexed lines of text that hold an if-change
IfChangeLines(text) == {i \in 0..(Len(text) - 1) : text[i + 1] = IfLine}

\* C30: the parse of a text whose markers form only well-formed blocks
\* returns Ok without any diagnostic, with exactly one block per if-change,
\* in the order of the if-changes in the text.
C30_WellFormedBlocksParse ==
    (parser.at = "done" /\ OnlyWellFormedBlocks(parser.p.input_content)) =>
        /\ parser.p.errors = <<>>
        /\ parser.result.ok
        /\ parser.result.diagnostics = <<>>
        /\ Len(parser.result.blocks) = Cardinality(IfChangeLines(parser.p.input_content))
        /\ \A k \in 1..Len(parser.result.blocks) :
               /\ parser.result.blocks[k].if_change_lineno
                      \in IfChangeLines(parser.p.input_content)
               /\ parser.result.blocks[k].if_change_lineno
                      < parser.result.blocks[k].then_change_lineno
               /\ parser.result.blocks[k].then_change_lineno
                      <= parser.result.blocks[k].end_change_lineno
               /\ \A j \in (k + 1)..Len(parser.result.blocks) :
                      parser.result.blocks[k].end_change_lineno
                          < parser.result.blocks[j].if_change_lineno

\* A parse that has returned, of a text of two well-formed blocks
C30_Witness ==
    /\ parser.at = "done"
    /\ OnlyWellFormedBlocks(parser.p.input_content)
    /\ Cardinality(IfChangeLines(parser.p.input_content)) = 2

(***************************************************************************)
(* Comment styles and keywords that go on.                                 *)
(***************************************************************************)
\* Whether a parse over styled lines is under way or over
Styled == parser.at # "idle" /\ "lines" \in DOMAIN parser

\* C31: the lines of a text get the same classification, and the same
\* target, whatever comment opener, closer and indentation each is written
\* with; the parse returns the same blocks (targets and line numbers) and the
\* same diagnostics as for the text written as "# ..." comments.
C31_CommentStyleInvariance ==
    Styled =>
        \A reference \in {ReferenceText(parser.lines)} :
            /\ \A k \in 1..Len(parser.lines) :
                   line_type(parser.p.input_content[k]) = line_type(reference[k])
            /\ parser.at = "done" => parser.result = from_str(<<"a">>, reference)

\* A parse that has returned a block of two targets, from a text whose five
\* lines are written in three comment styles or more, no line as "# ..."
C31_Witness ==
    /\ Styled
    /\ parser.at = "done"
    /\ parser.result.ok
    /\ \E k \in 1..Len(parser.result.blocks) : Len(parser.result.blocks[k].then_change) = 2
    /\ \A k \in 1..Len(parser.lines) : parser.lines[k].kind # "x" => parser.lines[k].style # HashStyle
    /\ Cardinality({parser.lines[k].style : k \in 1..Len(parser.lines)}) >= 3

\* Whether a line is a comment opener, the keyword, and right after it
\* something that is no whitespace
KeywordGoesOn(line, keyword) ==
    \E k \in {Find(line, keyword, 1)} :
        /\ k # 0
        /\ is_comment_prefix(SubSeq(line, 1, k - 1))
        /\ k < Len(line)
        /\ line[k + 1] \notin Whitespace

\* Whether the keyword of such a line goes on into text that is not
\* punctuation and whitespace only
KeywordGoesOnInText(line, keyword) ==
    /\ KeywordGoesOn(line, keyword)
    /\ \E m \in (Find(line, keyword, 1) + 1)..Len(line) : ~IsPunctOrWhitespace(line[m])

\* The step of the scan over one line
LineStep == parser.at = "lines" /\ parser'.at = "lines"

\* C32 as stated: a line whose "if-change" is immediately followed by text
\* that is no whitespace is classified as a source line.
C32_IfChangeFollowedByTextIsSource ==
    Styled =>
        \A k \in 1..Len(parser.p.input_content) :
            KeywordGoesOn(parser.p.input_content[k], "if-change")
                => line_type(parser.p.input_content[k]).type = "SourceCode"

\* C32: a line whose "if-change" is immediately followed by text that is not
\* punctuation and whitespace only is classified as a source line.  Outside a
\* block and after an if-change the scan of it changes nothing: no error, the
\* same state, the same if-change line.  In a then-change block it is
\* collected as a target, without error.
C32_IfChangeInLongerWordIsSource ==
    /\ [](Styled =>
            \A k \in 1..Len(parser.p.input_content) :
                KeywordGoesOnInText(parser.p.input_content[k], "if-change")
                    => line_type(parser.p.input_content[k]).type = "SourceCode")
    /\ [][(Styled /\ LineStep /\ KeywordGoesOnInText(CurrentLine, "if-change"))
          => /\ parser'.p.errors = parser.p.errors
             /\ parser'.p.block_nodes = parser.p.block_nodes
             /\ parser'.p.parse_state.tag = parser.p.parse_state.tag
             /\ parser'.p.parse_state.lineno = parser.p.parse_state.lineno
             /\ parser.p.parse_state.tag \in {"NoOp", "IfChange"}
                    => parser'.p = parser.p
             /\ parser.p.parse_state.tag = "ThenChange"
                    => parser'.p.parse_state.builder =
                           then_change_push(parser.p.parse_state.builder,
                                            <<parser.i, BlockKey(trim_matches(CurrentLine))>>)]_vars

\* A scan that read "if-change-x" right after an if-change and stayed there
C32_Witness ==
    /\ Styled
    /\ parser.i = 2
    /\ parser.lines[1].kind = "if-change"
    /\ parser.lines[2].kind = "if-change-x"
    /\ parser.p.parse_state.tag = "IfChange"
    /\ parser.p.parse_state.builder.if_change_lineno = Some(0)
    /\ parser.p.errors = <<>>

\* C33: in a then-change block, a comment line whose text starts with
\* "end-change" and goes on (as "end-change-x") is collected as a target at
\* its line, and does not close the block.
C33_EndChangeInLongerWordIsTarget ==
    [][(Styled /\ LineStep /\ parser.p.parse_state.tag = "ThenChange"
           /\ KeywordGoesOnInText(CurrentLine, "end-change"))
       => /\ parser'.p.parse_state.tag = "ThenChange"
          /\ parser'.p.block_nodes = parser.p.block_nodes
          /\ parser'.p.parse_state.builder =
                 then_change_push(parser.p.parse_state.builder,
                                  <<parser.i, BlockKey(trim_matches(CurrentLine))>>)]_vars

RECURSIVE SourceEntries(_, _, _)
SourceEntries(text, from, to) ==
    IF from > to
    THEN <<>>
    ELSE (IF line_type(text[from + 1]).type = "SourceCode"
          THEN <<<<from, BlockKey(trim_matches(text[from + 1]))>>>>
          ELSE <<>>) \o SourceEntries(text, from + 1, to)

\* The step of the scan over one line that emits a block
BlockEmitted == LineStep /\ Len(parser'.p.block_nodes) = Len(parser.p.block_nodes) + 1

\* The block emitted by that step
EmittedBlock == parser'.p.block_nodes[Len(parser'.p.block_nodes)]

C36_NoDuplicateDiagnostic ==
    pc = "done" =>
        \A i \in 1..Len(stdout) : \A j \in (i + 1)..Len(stdout) : stdout[i] # stdout[j]

\* Whether the obligation of a touched block of the file at p to the file at
\* t is met: a touched block of t names p
ObligationMet(files, p, t) == t \in Paths /\ TouchedBlockLists(files, t, p)

\* C37: for every touched block and every then_change entry it keeps after
\* discovery, a touched block of the target file names the block's file, or
\* a line "expected ..." is printed at the target file that names the
\* block's position.
C37_NoObligationDropped ==
    pc = "done" =>
        \A files \in {ParsedFiles} : \A p \in DOMAIN ret : \A k \in 1..Len(ret[p]) :
            Touched(ret[p][k]) =>
                \A e \in 1..Len(ret[p][k].then_change) :
                    \/ ObligationMet(files, p, ret[p][k].then_change[e][2].path)
                    \/ \E n \in 1..Len(stdout) :
                           AboutObligation(stdout[n], ret[p][k],
                                           ret[p][k].then_change[e][2].path)

\* A run with a touched block of two kept entries: one met by a touched
\* block of its target, one not met, reported at a target that holds an
\* untouched block naming the block's file
C37_Witness ==
    /\ pc = "done"
    /\ \E files \in {ParsedFiles} : \E p \in DOMAIN ret : \E k \in 1..Len(ret[p]) :
           /\ Touched(ret[p][k])
           /\ \E e \in 1..Len(ret[p][k].then_change) :
                  /\ ret[p][k].then_change[e][2].path # p
                  /\ ObligationMet(files, p, ret[p][k].then_change[e][2].path)
           /\ \E e \in 1..Len(ret[p][k].then_change) :
                  /\ ~ObligationMet(files, p, ret[p][k].then_change[e][2].path)
                  /\ SomeBlockLists(files, ret[p][k].then_change[e][2].path, p)
                  /\ \E n \in 1..Len(stdout) :
                         AboutObligation(stdout[n], ret[p][k],
                                         ret[p][k].then_change[e][2].path)

(***************************************************************************)
(* The blocks named as the cause of a diagnostic.                          *)
(***************************************************************************)
\* The hunks of the diff for the file at p
HunksOf(p) ==
    LET k == CHOOSE j \in 1..Len(patch_set) : PairFile(patch_set[j]) = p
    IN  patch_set[k].hunks

\* C38: only the files of the diff have touched blocks, and every line
\* "expected ..." names as its cause a block of a file of the diff whose
\* content range holds an added or removed line.
C38_CauseIsChangedBlockOfDiffFile ==
    pc = "done" =>
        /\ DOMAIN modified_blocks_by_path \subseteq DiffPaths
        /\ \A n \in 1..Len(stdout) :
               stdout[n].message.kind \in ExpectedKinds =>
                   \E p \in DiffPaths \cap Paths : \E k \in 1..Len(BlocksOf(p)) :
                       /\ stdout[n].message.arg = PrintedRange(BlocksOf(p)[k])
                       /\ ChangedLineInContentRange(BlocksOf(p)[k], HunksOf(p))

(***************************************************************************)
(* Blocks without a target.                                                *)
(***************************************************************************)
\* The step of the scan over an end-change line that closes a then-change
\* block in which no source line was met
EmptyBlockClosed ==
    /\ LineStep
    /\ parser.p.parse_state.tag = "ThenChange"
    /\ CurrentLine = EndLine
    /\ SourceEntries(parser.p.input_content, Unwrap(parser.p.parse_state.lineno) + 1,
                     parser.i - 1) = <<>>

\* C39: every block the parser builds or returns has at least one
\* then_change entry; the end-change of a then-change block without a target
\* line emits no block and records one diagnostic at the end-change line.
C39_NoBlockWithoutTarget ==
    /\ [](\A k \in 1..Len(ParserBlocks) : Len(ParserBlocks[k].then_change) >= 1)
    /\ [][EmptyBlockClosed
          => /\ parser'.p.block_nodes = parser.p.block_nodes
             /\ Len(parser'.p.errors) = Len(parser.p.errors) + 1
             /\ SubSeq(parser'.p.errors, 1, Len(parser.p.errors)) = parser.p.errors
             /\ parser'.p.errors[Len(parser'.p.errors)].path = <<"a">>
             /\ parser'.p.errors[Len(parser'.p.errors)].start_line = Some(parser.i)
             /\ parser'.p.errors[Len(parser'.p.errors)].end_line = None]_vars

\* A parse of if-change, then-change, end-change that has returned one
\* diagnostic, at the end-change line, and no block
C39_Witness ==
    /\ parser.at = "done"
    /\ parser.p.input_content = <<IfLine, ThenBlockLine, EndLine>>
    /\ ~parser.result.ok
    /\ parser.result.blocks = <<>>
    /\ Len(parser.result.diagnostics) = 1
    /\ parser.result.diagnostics[1].start_line = Some(2)
====
